---- MODULE Spec2Model ----
(***************************************************************************)
(* A model of the vm_cpu crate of slothytoppy/phony: the register machine  *)
(* of cpu.rs (fetch_instruction, execute_instruction, step, execute, the   *)
(* stack helpers and the interrupt dispatch), the opcode table of          *)
(* opcodes.rs, the register file of registers.rs, the Address arithmetic   *)
(* of memory.rs and the array-backed Memory of stack.rs / memory/mem.rs.   *)
(*                                                                         *)
(* A u32 is the pair <<hi, lo>> of its 16-bit halves, so that the whole    *)
(* 32-bit range, its maximum and its overflow are represented exactly.     *)
(***************************************************************************)
EXTENDS Integers, Sequences, FiniteSets, TLC

VARIABLES
    flags,            \* Cpu.flags.cmp
    registers,        \* Cpu.registers: Register -> u32
    interrupt_table,  \* Cpu.interrupt_table
    in_interrupt,     \* Cpu.in_interrupt
    program_start,    \* Cpu.program_start
    memory,           \* Cpu.memory: Stack<SIZE>.memory, its first MemSize bytes
    above,            \* Stack<SIZE>.memory above them: the bytes written
                      \* there, address -> u8, every other byte being 0
    size,             \* SIZE of Stack<SIZE>
    build,            \* "any" until an overflowing u32 operation shows whether
                      \* the build checks overflow ("debug") or wraps ("release")
    caller,           \* "host": the embedder calls step(); "execute": inside
                      \* the run loop of execute(); "aborted": the process died
    result,           \* what the last step() returned
    error,            \* the Err value or the panic of the last step()
    inst,             \* the Instruction the last step() fetched
    halted,           \* some step() has executed Halt
    prog,             \* the instructions of the loaded image, in layout order
    stack_start,      \* the stack_start argument of Cpu::new
    steps,            \* number of step() calls made
    faults,           \* number of step() calls that returned Err
    data,             \* the source text handed to Parser::parse
    ast,              \* Parser.ast.nodes
    resolved_labels,  \* Parser.resolved_labels: label name -> Address
    parsed            \* what Parser::parse returned: "none" before the call,
                      \* then "Ok", "EmptyFile", or "panic"

\* the variables of the Cpu and of its embedder, and those of the assembler
cpuvars == <<flags, registers, interrupt_table, in_interrupt, program_start,
             memory, above, size, build, caller, result, error, inst, halted,
             prog, stack_start, steps, faults>>

asmvars == <<data, ast, resolved_labels, parsed>>

vars == <<cpuvars, asmvars>>

-----------------------------------------------------------------------------
(* Bounds of the model *)

\* SIZE of the Stack<SIZE> of the tests, and the number of bytes that are
\* kept as an array when SIZE is u32::MAX
MemSize == 32

\* number of step() calls explored in one run
MaxSteps == 6

-----------------------------------------------------------------------------
(* u32 arithmetic on <<hi, lo>> pairs *)

Half == 2^16

Byte == 2^8

N32(n) == <<n \div Half, n % Half>>

Zero32 == <<0, 0>>

MaxU32 == <<Half - 1, Half - 1>>

\* u32 + u32: the wrapped sum, and whether it overflowed
Add32(x, y) ==
    LET lo == x[2] + y[2]
        hi == x[1] + y[1] + (lo \div Half)
    IN  [val |-> <<hi % Half, lo % Half>>, ovf |-> hi >= Half]

\* u32 - u32: the wrapped difference, and whether it underflowed
Sub32(x, y) ==
    LET lo == x[2] - y[2]
        borrow == IF lo < 0 THEN 1 ELSE 0
        hi == x[1] - y[1] - borrow
    IN  [val |-> <<(hi + Half) % Half, (lo + Half) % Half>>, ovf |-> hi < 0]

Lt32(x, y) == x[1] < y[1] \/ (x[1] = y[1] /\ x[2] < y[2])

Gt32(x, y) == Lt32(y, x)

\* u32::saturating_sub
SaturatingSub(x, y) == IF Lt32(x, y) THEN Zero32 ELSE Sub32(x, y).val

\* u32::to_le_bytes
ToLeBytes(x) == <<x[2] % Byte, x[2] \div Byte, x[1] % Byte, x[1] \div Byte>>

\* u32::from_le_bytes
FromLeBytes(b0, b1, b2, b3) == <<b3 * Byte + b2, b1 * Byte + b0>>

\* u16::from_le_bytes, widened to u32
FromLeBytes16(b0, b1) == <<0, b1 * Byte + b0>>

-----------------------------------------------------------------------------
(* Registers (registers.rs) *)

IP == 0
SP == 1
FP == 2
R1 == 3
R2 == 4
R3 == 5
R4 == 6
R5 == 7
R6 == 8
R7 == 9
R8 == 10

\* Register::len()
RegisterLen == 11

Register == 0 .. (RegisterLen - 1)

\* TryFrom<u8> for Register: Ok for 0..=10, Err(InvalidRegister) otherwise
RegisterTryFromOk(b) == b \in Register

\* Registers::default
RegistersDefault == [r \in Register |-> IF r = SP THEN MaxU32 ELSE Zero32]

\* u16::from_le_bytes
U16FromLeBytes(b0, b1) == b1 * Byte + b0

\* impl WordSize for u32: the u16 of bytes 2 and 3, and of bytes 0 and 1
upper(x) == U16FromLeBytes(ToLeBytes(x)[3], ToLeBytes(x)[4])

lower(x) == U16FromLeBytes(ToLeBytes(x)[1], ToLeBytes(x)[2])

\* x << 16 and x >> 16 on a u32: the bits shifted out are dropped
Shl16(x) == <<x[2], 0>>

Shr16(x) == <<0, x[1]>>

\* x as u16: the low 16 bits
AsU16(x) == x[2]

\* Registers::get_upper: (self[register] << 16) >> 16
get_upper(regs, register) == AsU16(Shr16(Shl16(regs[register])))

\* Registers::get_lower: self[register] >> 16
get_lower(regs, register) == AsU16(Shr16(regs[register]))

-----------------------------------------------------------------------------
(* Opcodes (opcodes.rs) *)

\* op_codes! table: variant and operand amount, in discriminant order
OpTable == <<
    <<"MovRegMem", 5>>, <<"MovRegReg", 2>>,
    <<"MovRegU8", 2>>, <<"MovRegU16", 3>>, <<"MovRegU32", 5>>,
    <<"MovMemMem", 8>>, <<"MovMemReg", 5>>,
    <<"MovMemU8", 5>>, <<"MovMemU16", 6>>, <<"MovMemU32", 8>>,
    <<"AddRegReg", 2>>, <<"AddRegMem", 5>>,
    <<"AddRegU8", 2>>, <<"AddRegU16", 3>>, <<"AddRegU32", 5>>,
    <<"IncReg", 1>>, <<"IncMem", 4>>,
    <<"PushReg", 1>>, <<"PushMem", 4>>,
    <<"PushU8", 1>>, <<"PushU16", 2>>, <<"PushU32", 4>>,
    <<"PopReg", 1>>,
    <<"Jump", 4>>, <<"Call", 4>>,
    <<"Load", 4>>,
    <<"Halt", 0>>, <<"Ret", 0>>,
    <<"Interrupt", 1>>, <<"InterruptReg", 1>>,
    <<"StoreReg", 2>>,
    <<"StoreU8", 5>>, <<"StoreU16", 6>>, <<"StoreU32", 8>> >>

\* The variants cpu.rs uses that the table of opcodes.rs does not list.  Their
\* rows follow the rule of the specification: the amount is the number of
\* operand bytes (1 per register, 4 per address, 1/2/4 per immediate).
OpTableExt == <<
    <<"AddMemReg", 5>>,
    <<"CmpReg", 2>>, <<"CmpU8", 2>>, <<"CmpU16", 4>>, <<"CmpU32", 8>>,
    <<"JumpGe", 4>>, <<"JumpGte", 4>>, <<"JumpLe", 4>>, <<"JumpLte", 4>> >>

OpCodes == OpTable \o OpTableExt

OpCode == {OpCodes[i][1] : i \in 1 .. Len(OpCodes)}

OpIndex(op) == CHOOSE i \in 1 .. Len(OpCodes) : OpCodes[i][1] = op

\* From<OpCode> for u8: the discriminant
OpByte(op) == OpIndex(op) - 1

\* TryFrom<u8> for OpCode: Ok for a discriminant, Err(InvalidOpCode) otherwise
OpCodeTryFromOk(b) == b < Len(OpCodes)

OpCodeTryFrom(b) == OpCodes[b + 1][1]

\* OpCode::increment_amount: $amount + 1
increment_amount(op) == OpCodes[OpIndex(op)][2] + 1

-----------------------------------------------------------------------------
(* Instructions and their byte layout *)

\* An operand of a decoded Instruction: a Register, an Address or a Value of
\* one width.  v is always a u32 pair; a register is <<0, id>>.
Arg(k, v) == [k |-> k, v |-> v]

Reg(r) == Arg("reg", <<0, r>>)

Addr(a) == Arg("addr", a)

ValU8(n) == Arg("u8", <<0, n>>)

ValU16(n) == Arg("u16", <<0, n>>)

ValU32(x) == Arg("u32", x)

\* enum Instruction, as cpu.rs uses it
Ins(name, args) == [name |-> name, args |-> args]

NoInst == Ins("None", <<>>)

\* encoded size of an operand kind
Width(k) ==
    CASE k = "reg" -> 1
      [] k = "u8" -> 1
      [] k = "u16" -> 2
      [] k = "u32" -> 4
      [] k = "addr" -> 4

\* One operand read by fetch_instruction: its kind, the index of its first
\* byte in the bytecode window, and the Instruction argument it becomes.
Opnd(k, at, arg) == [k |-> k, at |-> at, arg |-> arg]

\* Cpu::fetch_instruction, the match on the opcode: the operands each arm
\* reads, in the order it reads them
Operands(op) ==
    CASE op = "MovRegMem" -> <<Opnd("reg", 0, 1), Opnd("addr", 1, 2)>>
      [] op = "MovRegReg" -> <<Opnd("reg", 0, 1), Opnd("reg", 1, 2)>>
      [] op = "MovRegU8" -> <<Opnd("reg", 0, 1), Opnd("u8", 1, 2)>>
      [] op = "MovRegU16" -> <<Opnd("reg", 0, 1), Opnd("u16", 1, 2)>>
      [] op = "MovRegU32" -> <<Opnd("reg", 0, 1), Opnd("u32", 1, 2)>>
      [] op = "MovMemReg" -> <<Opnd("addr", 0, 1), Opnd("reg", 4, 2)>>
      [] op = "MovMemU8" -> <<Opnd("addr", 0, 1), Opnd("u8", 4, 2)>>
      [] op = "MovMemU16" -> <<Opnd("addr", 0, 1), Opnd("u16", 4, 2)>>
      [] op = "MovMemU32" -> <<Opnd("addr", 0, 1), Opnd("u32", 4, 2)>>
      [] op = "AddRegReg" -> <<Opnd("reg", 0, 1), Opnd("reg", 1, 2)>>
      [] op = "AddRegMem" -> <<Opnd("reg", 0, 1), Opnd("addr", 1, 2)>>
      [] op = "AddMemReg" -> <<Opnd("addr", 0, 1), Opnd("reg", 4, 2)>>
      [] op = "AddRegU8" -> <<Opnd("reg", 0, 1), Opnd("u8", 1, 2)>>
      [] op = "AddRegU16" -> <<Opnd("reg", 0, 1), Opnd("u16", 1, 2)>>
      [] op = "AddRegU32" -> <<Opnd("reg", 0, 1), Opnd("u32", 1, 2)>>
      [] op = "IncReg" -> <<Opnd("reg", 0, 1)>>
      [] op = "IncMem" -> <<Opnd("addr", 0, 1)>>
      [] op = "PushReg" -> <<Opnd("reg", 0, 1)>>
      [] op = "PushMem" -> <<Opnd("addr", 0, 1)>>
      [] op = "PushU8" -> <<Opnd("u8", 0, 1)>>
      [] op = "PushU16" -> <<Opnd("u16", 0, 1)>>
      [] op = "PushU32" -> <<Opnd("u32", 0, 1)>>
      [] op = "PopReg" -> <<Opnd("reg", 0, 1)>>
      [] op = "CmpReg" -> <<Opnd("reg", 0, 1), Opnd("reg", 1, 2)>>
      [] op = "CmpU8" -> <<Opnd("u8", 0, 1), Opnd("u8", 0, 2)>>
      [] op = "CmpU16" -> <<Opnd("u16", 0, 1), Opnd("u16", 2, 2)>>
      [] op = "CmpU32" -> <<Opnd("u32", 0, 1), Opnd("u32", 4, 2)>>
      [] op = "Jump" -> <<Opnd("addr", 0, 1)>>
      [] op = "JumpGe" -> <<Opnd("addr", 0, 1)>>
      [] op = "JumpGte" -> <<Opnd("addr", 0, 1)>>
      [] op = "JumpLe" -> <<Opnd("addr", 0, 1)>>
      [] op = "JumpLte" -> <<Opnd("addr", 0, 1)>>
      [] op = "Call" -> <<Opnd("addr", 0, 1)>>
      [] op = "Load" -> <<Opnd("reg", 0, 1), Opnd("addr", 1, 2)>>
      [] op = "StoreReg" -> <<Opnd("reg", 0, 2), Opnd("addr", 1, 1)>>
      [] op = "StoreU8" -> <<Opnd("addr", 0, 1), Opnd("u8", 4, 2)>>
      [] op = "StoreU16" -> <<Opnd("addr", 0, 1), Opnd("u16", 4, 2)>>
      [] op = "StoreU32" -> <<Opnd("addr", 0, 1), Opnd("u32", 4, 2)>>
      [] op = "Interrupt" -> <<Opnd("u32", 0, 1)>>
      [] op = "InterruptReg" -> <<Opnd("reg", 0, 1)>>
      [] op = "Halt" -> <<>>
      [] op = "Ret" -> <<>>
      [] OTHER -> <<>>

\* Cpu::fetch_instruction has an arm for the opcode (MovMemMem has none)
HasFetchArm(op) == op # "MovMemMem"

\* Cpu::fetch_instruction, the Instruction variant each arm builds
InstructionOf(op) ==
    CASE op \in {"MovRegU8", "MovRegU16", "MovRegU32"} -> "MovRegNum"
      [] op \in {"MovMemU8", "MovMemU16", "MovMemU32"} -> "MovMemNum"
      [] op \in {"AddRegU8", "AddRegU16", "AddRegU32"} -> "AddRegNum"
      [] op \in {"PushU8", "PushU16", "PushU32"} -> "PushVal"
      [] op \in {"CmpU8", "CmpU16", "CmpU32"} -> "CmpVal"
      [] op \in {"StoreU8", "StoreU16", "StoreU32"} -> "StoreVal"
      [] op = "JumpLe" -> "JumpLt"
      [] OTHER -> op

\* the opcode suffix of a Value width
Suffix(k) == CASE k = "u8" -> "U8" [] k = "u16" -> "U16" [] k = "u32" -> "U32"

\* From<Instruction> for OpCode, for the variants cpu.rs uses that the impl of
\* opcodes.rs does not list
OpCodeFromExt(i) ==
    CASE i.name = "CmpVal" -> "Cmp" \o Suffix(i.args[1].k)
      [] i.name = "JumpLt" -> "JumpLe"
      [] OTHER -> i.name

\* From<Instruction> for OpCode
OpCodeFrom(i) ==
    CASE i.name = "MovRegNum" -> "MovReg" \o Suffix(i.args[2].k)
      [] i.name = "MovMemNum" -> "MovMem" \o Suffix(i.args[2].k)
      [] i.name = "AddRegNum" -> "AddReg" \o Suffix(i.args[2].k)
      [] i.name = "PushVal" -> "Push" \o Suffix(i.args[1].k)
      [] i.name = "StoreVal" -> "Store" \o Suffix(i.args[2].k)
      [] i.name \in {"CmpVal", "CmpReg", "AddMemReg",
                     "JumpGe", "JumpGte", "JumpLt", "JumpLte"} -> OpCodeFromExt(i)
      [] OTHER -> i.name

\* the bytes of one operand in an image: a register is its discriminant,
\* every multi-byte value is little-endian (Ast::into_bytes)
ArgBytes(a) ==
    CASE a.k = "reg" -> <<a.v[2]>>
      [] a.k = "u8" -> <<a.v[2]>>
      [] a.k = "u16" -> <<a.v[2] % Byte, a.v[2] \div Byte>>
      [] a.k = "u32" -> ToLeBytes(a.v)
      [] a.k = "addr" -> ToLeBytes(a.v)

\* The order in which an image holds the operands of an instruction: the
\* order of the Instruction's fields, except StoreReg, whose register comes
\* first (the images of cpu.rs's tests).
EncOrder(i) ==
    CASE i.name = "StoreReg" -> <<2, 1>>
      [] OTHER -> [k \in 1 .. Len(i.args) |-> k]

RECURSIVE Flatten(_)
Flatten(ss) == IF ss = <<>> THEN <<>> ELSE Head(ss) \o Flatten(Tail(ss))

\* a literal byte of an image that is no instruction
Data(b) == Ins("Data", <<ValU8(b)>>)

\* the encoded instruction: the opcode byte, then the operand bytes
Encode(i) ==
    IF i.name = "Data" THEN <<i.args[1].v[2]>>
    ELSE <<OpByte(OpCodeFrom(i))>>
            \o Flatten([k \in 1 .. Len(i.args) |-> ArgBytes(i.args[EncOrder(i)[k]])])

\* the image of a sequence of instructions
Image(is) == Flatten([k \in 1 .. Len(is) |-> Encode(is[k])])

-----------------------------------------------------------------------------
(* The Cpu value threaded through one step(): the six fields of the struct,
   the build, and the outcome so far: st is "ok", "err" (a Result::Err is
   being returned) or "panic" (the process aborts). *)

NoError == [kind |-> "none", byte |-> 0]

Ok(c) == c.st = "ok"

\* return Err(e)
Fail(c, kind, byte) == [c EXCEPT !.st = "err", !.err = [kind |-> kind, byte |-> byte]]

\* a panic: index out of bounds, arithmetic overflow, todo!()
Panic(c, kind) == [c EXCEPT !.st = "panic", !.err = [kind |-> kind, byte |-> 0]]

\* a result that carries a value with the Cpu
Val(c, v) == [c |-> c, v |-> v]

\* `?` and `;`: go on with F unless an error or a panic is under way.  Then
\* and Bind yield a Cpu, ThenV and BindV a Cpu with a value.
Then(c, F(_)) == IF Ok(c) THEN F(c) ELSE c

ThenV(c, F(_)) == IF Ok(c) THEN F(c) ELSE Val(c, 0)

Bind(r, F(_, _)) == IF Ok(r.c) THEN F(r.c, r.v) ELSE r.c

BindV(r, F(_, _)) == IF Ok(r.c) THEN F(r.c, r.v) ELSE r

\* The outcome of a u32 `+`, `-` or `+=`, r being Add32 or Sub32 of the
\* operands: a build with overflow checks panics, the other one wraps.
Arith(c, r) ==
    IF ~r.ovf THEN c
    ELSE IF c.build = "debug" THEN Panic([c EXCEPT !.ovf = TRUE], "overflow")
    ELSE [c EXCEPT !.ovf = TRUE]

\* go on with the result of a u32 `+` or `-`
Checked(c, r, F(_, _)) == Then(Arith(c, r), LAMBDA d : F(d, r.val))

CheckedV(c, r, F(_, _)) == ThenV(Arith(c, r), LAMBDA d : F(d, r.val))

-----------------------------------------------------------------------------
(* Address (memory.rs) *)

One32 == <<0, 1>>

\* Address::next: checked_add(1), Err(StackOverflow) at the maximum
AddressNextOk(a) == a # MaxU32

AddressNext(a) == Add32(a, One32).val

\* Address::prev: checked_sub(1), Err(StackUnderflow) at zero
AddressPrevOk(a) == a # Zero32

AddressPrev(a) == Sub32(a, One32).val

\* address.next()?, handed to F
NextV(c, a, F(_, _)) ==
    IF AddressNextOk(a) THEN F(c, AddressNext(a)) ELSE Val(Fail(c, "StackOverflow", 0), 0)

-----------------------------------------------------------------------------
(* impl Memory for Stack<SIZE> (stack.rs) and the derived helpers of the
   Memory trait (memory/mem.rs) *)

\* an index the array has
InBounds(a) == a[1] = 0 /\ a[2] < MemSize

\* an index the array of c has: below SIZE
Has(c, a) == Lt32(a, c.size)

\* self.memory[a] for an index the array has
ByteAt(c, a) ==
    IF InBounds(a) THEN c.memory[a[2]]
    ELSE IF a \in DOMAIN c.above THEN c.above[a]
    ELSE 0

\* self.memory[a] = byte for an index the array has
WithByte(c, a, byte) ==
    IF InBounds(a) THEN [c EXCEPT !.memory[a[2]] = byte]
    ELSE [c EXCEPT !.above = [x \in (DOMAIN c.above) \cup {a} |->
                                IF x = a THEN byte ELSE c.above[x]]]

\* Stack::read: self.memory[usize::from(address)]
StackRead(c, a) ==
    IF Has(c, a) THEN Val(c, ByteAt(c, a))
    ELSE Val(Panic(c, "index out of bounds"), 0)

\* the index Stack::write uses: addr when addr < SIZE, else addr.saturating_sub(1)
WriteIndex(c, a) == IF Lt32(a, c.size) THEN a ELSE SaturatingSub(a, One32)

\* Stack::write
StackWrite(c, a, byte) ==
    IF Has(c, WriteIndex(c, a)) THEN WithByte(c, WriteIndex(c, a), byte)
    ELSE Panic(c, "index out of bounds")

\* Stack::get: &self.memory[start..end]
StackGet(c, start, end) ==
    IF Lt32(end, start) \/ Lt32(c.size, end)
    THEN Val(Panic(c, "index out of bounds"), <<>>)
    ELSE Val(c, [k \in 1 .. Sub32(end, start).val[2] |->
                    ByteAt(c, Add32(start, N32(k - 1)).val)])

\* Memory::write_bytes: write(addr + i, bytes[i]) for i = 0, 1, ...
RECURSIVE WriteBytesFrom(_, _, _, _)
WriteBytesFrom(c, addr, bytes, i) ==
    IF i > Len(bytes) THEN c
    ELSE Checked(c, Add32(addr, N32(i - 1)), LAMBDA d, at :
            Then(StackWrite(d, at, bytes[i]), LAMBDA e :
                WriteBytesFrom(e, addr, bytes, i + 1)))

write_bytes(c, addr, bytes) == WriteBytesFrom(c, addr, bytes, 1)

\* Memory::write_u16
write_u16(c, addr, num) == write_bytes(c, addr, <<num[2] % Byte, num[2] \div Byte>>)

\* Memory::write_u32
write_u32(c, addr, num) == write_bytes(c, addr, ToLeBytes(num))

\* Memory::read_u16: the bytes at address and address + 1
read_u16(c, address) ==
    BindV(StackRead(c, address), LAMBDA c0, low :
    NextV(c0, address, LAMBDA c1, a1 :
    BindV(StackRead(c1, a1), LAMBDA c2, high :
        Val(c2, FromLeBytes16(low, high)))))

\* Memory::read_u32: reads address, address + 1 twice, and address + 2
read_u32(c, address) ==
    BindV(StackRead(c, address), LAMBDA c0, low_u16 :
    NextV(c0, address, LAMBDA c1, a1 :
    BindV(StackRead(c1, a1), LAMBDA c2, high_u16 :
    BindV(StackRead(c2, a1), LAMBDA c3, low_u32 :
    NextV(c3, a1, LAMBDA c4, a2 :
    BindV(StackRead(c4, a2), LAMBDA c5, high_u32 :
        Val(c5, FromLeBytes(low_u16, high_u16, low_u32, high_u32))))))))

-----------------------------------------------------------------------------
(* TryFrom<&[u8]> for Instruction (opcodes.rs): the conversions of register
   bytes.  value[i] of the source is value[i + 1] here. *)

\* the indices of value an arm converts to a Register, in the order of the arm
RegistersAt(op) ==
    CASE op \in {"MovRegReg", "AddRegReg"} -> <<1, 2>>
      [] op \in {"MovRegU8", "MovRegU16", "MovRegU32"} -> <<0>>
      [] op \in {"AddRegU8", "AddRegU16", "AddRegU32", "PushReg", "PopReg", "Load",
                 "MovRegMem", "AddRegMem", "IncReg", "InterruptReg", "StoreReg"} -> <<1>>
      [] op = "MovMemReg" -> <<5>>
      [] OTHER -> <<>>

\* the arms that unwrap_or_else(panic!) the conversion, the others use `?`
Unwraps(op) ==
    op \in {"MovRegU8", "MovRegU16", "MovRegU32", "AddRegU8", "AddRegU16", "AddRegU32"}

\* the outcome of the conversions at[k..]: ok, Err(InvalidRegister), or a panic
RECURSIVE TryFromRegisters(_, _, _, _)
TryFromRegisters(op, value, at, k) ==
    IF k > Len(at) THEN [st |-> "ok", err |-> NoError]
    ELSE IF RegisterTryFromOk(value[at[k] + 1])
         THEN TryFromRegisters(op, value, at, k + 1)
         ELSE IF Unwraps(op)
              THEN [st |-> "panic", err |-> [kind |-> "failed to convert", byte |-> 0]]
              ELSE [st |-> "err",
                    err |-> [kind |-> "InvalidRegister", byte |-> value[at[k] + 1]]]

\* Instruction::try_from(value), as far as the opcode and the registers go
InstructionTryFrom(value) ==
    IF value[1] >= Len(OpTable)
    THEN [st |-> "err", err |-> [kind |-> "InvalidOpCode", byte |-> value[1]]]
    ELSE TryFromRegisters(OpTable[value[1] + 1][1], value,
                          RegistersAt(OpTable[value[1] + 1][1]), 1)

-----------------------------------------------------------------------------
(* Cpu::fetch_instruction *)

\* The first failure among the operands ops[k..] of the window bc: an index
\* past the window panics, a register byte that is no Register is an Err.
RECURSIVE OperandFault(_, _, _, _)
OperandFault(c, bc, ops, k) ==
    IF k > Len(ops) THEN c
    ELSE IF ops[k].k = "reg"
         THEN IF ops[k].at + 1 > Len(bc) THEN Panic(c, "index out of bounds")
              ELSE IF ~RegisterTryFromOk(bc[ops[k].at + 1])
                   THEN Fail(c, "InvalidRegister", bc[ops[k].at + 1])
                   ELSE OperandFault(c, bc, ops, k + 1)
         ELSE IF ops[k].at + Width(ops[k].k) > Len(bc)
              THEN Panic(c, "index out of bounds")
              ELSE OperandFault(c, bc, ops, k + 1)

\* the operand an arm builds from the window (bytecode[i] is bc[i + 1])
OperandValue(bc, o) ==
    CASE o.k = "reg" -> Reg(bc[o.at + 1])
      [] o.k = "u8" -> ValU8(bc[o.at + 1])
      [] o.k = "u16" -> Arg("u16", FromLeBytes16(bc[o.at + 1], bc[o.at + 2]))
      [] o.k = "u32" ->
            ValU32(FromLeBytes(bc[o.at + 1], bc[o.at + 2], bc[o.at + 3], bc[o.at + 4]))
      [] o.k = "addr" ->
            Addr(FromLeBytes(bc[o.at + 1], bc[o.at + 2], bc[o.at + 3], bc[o.at + 4]))

\* the operand read for the j-th field of the Instruction
OperandFor(ops, j) == ops[CHOOSE k \in 1 .. Len(ops) : ops[k].arg = j]

\* the Instruction an arm builds
Decode(op, bc) ==
    Ins(InstructionOf(op),
        [j \in 1 .. Len(Operands(op)) |-> OperandValue(bc, OperandFor(Operands(op), j))])

\* the end of the operand window: (ip + 1) + increment_amount
WindowEnd(ip1, op) == Add32(ip1, N32(increment_amount(op)))

\* the match on the opcode, over the window bc
FetchArm(c, op, bc) ==
    IF ~HasFetchArm(op) THEN Val(Panic(c, "no arm"), NoInst)
    ELSE ThenV(OperandFault(c, bc, Operands(op), 1), LAMBDA d : Val(d, Decode(op, bc)))

\* the window ip1 .. ip1 + increment_amount, then the match
FetchWindow(c, op, ip1) ==
    CheckedV(c, WindowEnd(ip1, op), LAMBDA d, end :
        BindV(StackGet(d, ip1, end), LAMBDA e, bc : FetchArm(e, op, bc)))

\* a fetch that steps over a byte that is no opcode before it fails
FetchOpSkipping(c, ip, byte) ==
    IF ~OpCodeTryFromOk(byte)
    THEN Val(Fail([c EXCEPT !.registers[IP] = Add32(ip, One32).val], "InvalidOpCode", byte),
             NoInst)
    ELSE CheckedV(c, Add32(ip, One32), LAMBDA d, ip1 :
            FetchWindow(d, OpCodeTryFrom(byte), ip1))

\* OpCode::try_from(byte)?, then ip + 1
FetchOp(c, ip, byte) ==
    IF ~OpCodeTryFromOk(byte) THEN Val(Fail(c, "InvalidOpCode", byte), NoInst)
    ELSE CheckedV(c, Add32(ip, One32), LAMBDA d, ip1 :
            FetchWindow(d, OpCodeTryFrom(byte), ip1))

\* Cpu::fetch_instruction: the Cpu (unchanged, or failing) and the Instruction
fetch_instruction(c) ==
    BindV(StackRead(c, c.registers[IP]), LAMBDA d, byte :
        FetchOp(d, c.registers[IP], byte))

-----------------------------------------------------------------------------
(* The stack helpers of cpu.rs *)

\* registers[reg] = val
SetReg(c, reg, val) == [c EXCEPT !.registers[reg] = val]

\* Cpu::write_val: the bytes of val, most significant first, at sp, sp - 1,
\* sp - 2, sp - 3, sp being the SP register (the address argument is unused)
RECURSIVE WriteValFrom(_, _, _, _)
WriteValFrom(c, sp, rev, i) ==
    IF i > Len(rev) THEN c
    ELSE Checked(c, Sub32(sp, N32(i - 1)), LAMBDA d, at :
            Then(StackWrite(d, at, rev[i]), LAMBDA e :
                WriteValFrom(e, sp, rev, i + 1)))

\* val.to_le_bytes().iter().rev()
RevBytes(bytes) == <<bytes[4], bytes[3], bytes[2], bytes[1]>>

write_val(c, address, val) ==
    WriteValFrom(c, c.registers[SP], RevBytes(ToLeBytes(val)), 1)

\* the amount push_stack takes from SP: sp.prev().saturating_sub(4)
PushDecrement(sp) == SaturatingSub(AddressPrev(sp), N32(4))

\* Cpu::push_stack
push_stack(c, val) ==
    Then(write_val(c, c.registers[SP], val), LAMBDA d :
        IF ~AddressPrevOk(c.registers[SP]) THEN Fail(d, "StackUnderflow", 0)
        ELSE Checked(d, Sub32(d.registers[SP], PushDecrement(c.registers[SP])),
                     LAMBDA e, sp : SetReg(e, SP, sp)))

\* Cpu::read_mem_u32: reads address, address + 1, and address + 3 twice
read_mem_u32(c, address) ==
    BindV(StackRead(c, address), LAMBDA c0, l8bit :
    NextV(c0, address, LAMBDA c1, a1 :
    BindV(StackRead(c1, a1), LAMBDA c2, h8bit :
    NextV(c2, a1, LAMBDA c3, a2 :
    NextV(c3, a2, LAMBDA c4, a3 :
    BindV(StackRead(c4, a3), LAMBDA c5, l16bit :
    BindV(StackRead(c5, a3), LAMBDA c6, h16bit :
        Val(c6, FromLeBytes(l8bit, h8bit, l16bit, h16bit)))))))))

\* Cpu::pop_stack: the word at SP, and SP one address further
pop_stack(c) ==
    BindV(read_mem_u32(c, c.registers[SP]), LAMBDA d, val :
    NextV(d, c.registers[SP], LAMBDA e, sp : Val(SetReg(e, SP, sp), val)))

\* the five pushes of Call and of save_stack: R1, R2, R3, R4, IP
PushFrame(c) ==
    Then(push_stack(c, c.registers[R1]), LAMBDA c1 :
    Then(push_stack(c1, c1.registers[R2]), LAMBDA c2 :
    Then(push_stack(c2, c2.registers[R3]), LAMBDA c3 :
    Then(push_stack(c3, c3.registers[R4]), LAMBDA c4 :
         push_stack(c4, c4.registers[IP])))))

\* Cpu::save_stack
save_stack(c) ==
    Then(PushFrame(c), LAMBDA d :
        Checked(d, Sub32(d.registers[FP], SaturatingSub(d.registers[SP], One32)),
                LAMBDA e, fp_size : write_u32(e, d.registers[SP], fp_size)))

\* Cpu::restore_stack
restore_stack(c) ==
    Bind(pop_stack(SetReg(c, SP, c.registers[FP])), LAMBDA c0, frame_size :
    Bind(pop_stack(c0), LAMBDA c1, ip :
    Bind(pop_stack(c1), LAMBDA c2, r4 :
    Bind(pop_stack(c2), LAMBDA c3, r3 :
    Bind(pop_stack(c3), LAMBDA c4, r2 :
    Bind(pop_stack(c4), LAMBDA c5, r1 :
        Checked([c5 EXCEPT !.registers[IP] = ip, !.registers[R4] = r4,
                           !.registers[R3] = r3, !.registers[R2] = r2,
                           !.registers[R1] = r1],
                Add32(c.registers[FP], frame_size),
                LAMBDA d, prev_frame_ptr : SetReg(d, FP, prev_frame_ptr))))))))

\* a handle_interrupt that saves the context whatever in_interrupt is
handle_interrupt_saving(c, idx) ==
    Checked(c, Add32(c.interrupt_table, idx), LAMBDA c1, ptr :
    Then(save_stack(c1), LAMBDA c2 :
    Bind(read_u32(c2, ptr), LAMBDA c3, fp :
        [c3 EXCEPT !.in_interrupt = TRUE, !.registers[IP] = fp])))

\* a handle_interrupt that flips in_interrupt
handle_interrupt_toggling(c, idx) ==
    Checked(c, Add32(c.interrupt_table, idx), LAMBDA c1, ptr :
    Then(IF ~c1.in_interrupt THEN save_stack(c1) ELSE c1, LAMBDA c2 :
    Bind(read_u32(c2, ptr), LAMBDA c3, fp :
        [c3 EXCEPT !.in_interrupt = ~c.in_interrupt, !.registers[IP] = fp])))

\* Cpu::handle_interrupt
handle_interrupt(c, idx) ==
    Checked(c, Add32(c.interrupt_table, idx), LAMBDA c1, ptr :
    Then(IF ~c1.in_interrupt THEN save_stack(c1) ELSE c1, LAMBDA c2 :
    Bind(read_u32(c2, ptr), LAMBDA c3, fp :
        [c3 EXCEPT !.in_interrupt = TRUE, !.registers[IP] = fp])))

-----------------------------------------------------------------------------
(* Cpu::execute_instruction *)

\* Value as u32
AsU32(a) == a.v

\* the Register an operand names
RegOf(a) == a.v[2]

\* registers[reg] += val
AddReg(c, reg, val) ==
    Checked(c, Add32(c.registers[reg], val), LAMBDA d, sum : SetReg(d, reg, sum))

\* self.program_start + address, handed to F
AtProgram(c, address, F(_, _)) == Checked(c, Add32(c.program_start, address), F)

\* Memory::write of a Value at an address, by width
WriteValue(c, at, val) ==
    CASE val.k = "u8" -> StackWrite(c, at, val.v[2])
      [] val.k = "u16" -> write_u16(c, at, val.v)
      [] val.k = "u32" -> write_u32(c, at, val.v)

\* registers[reg] = memory.read_u32(at)?
LoadReg(c, reg, at) == Bind(read_u32(c, at), LAMBDA d, val : SetReg(d, reg, val))

\* a comparison that records Gte and Lte for operands that are equal
CompareInclusive(eq, old, val, val1) ==
    IF Lt32(val, val1) THEN "Lt"
    ELSE IF Gt32(val, val1) THEN "Gt"
    ELSE IF eq THEN "Gte"
    ELSE "Lte"

\* the arms CmpReg and CmpVal: Eq under eq, then Gt and Lt by the values
Compare(eq, old, val, val1) ==
    IF Lt32(val, val1) THEN "Lt"
    ELSE IF Gt32(val, val1) THEN "Gt"
    ELSE IF eq THEN "Eq"
    ELSE old

\* a jump that moves the program's base to its target
JumpToRebasing(c, address) ==
    AtProgram(c, address, LAMBDA d, a : [d EXCEPT !.registers[IP] = a, !.program_start = a])

\* the arms Jump, JumpGe, JumpGte, JumpLt, JumpLte: IP = program_start + address
JumpTo(c, address) == AtProgram(c, address, LAMBDA d, a : SetReg(d, IP, a))

\* the flags under which a jump is taken
Taken(name, cmp) ==
    CASE name = "Jump" -> TRUE
      [] name = "JumpGe" -> cmp = "Gt"
      [] name = "JumpGte" -> cmp = "Gt" \/ cmp = "Gte"
      [] name = "JumpLt" -> cmp = "Lt"
      [] name = "JumpLte" -> cmp = "Lt" \/ cmp = "Lte"

\* the arm Call
ExecCall(c, addr) ==
    Then(JumpTo(SetReg(c, SP, c.registers[IP]), addr), LAMBDA c2 :
    Then(PushFrame(c2), LAMBDA c3 :
        SetReg(c3, FP, SaturatingSub(c3.registers[SP], One32))))

\* Cpu::execute_instruction: the Cpu after the arm of the instruction
Execute(c, i) ==
    LET a1 == i.args[1]
        a2 == i.args[2]
    IN  CASE i.name = "MovRegMem" ->
                AtProgram(c, a2.v, LAMBDA d, a : write_u32(d, a, d.registers[RegOf(a1)]))
          [] i.name = "MovRegReg" -> SetReg(c, RegOf(a1), c.registers[RegOf(a2)])
          [] i.name = "MovRegNum" -> SetReg(c, RegOf(a1), AsU32(a2))
          [] i.name = "MovMemReg" ->
                AtProgram(c, a1.v, LAMBDA d, a : LoadReg(d, RegOf(a2), a))
          [] i.name = "MovMemNum" ->
                AtProgram(c, a1.v, LAMBDA d, a : WriteValue(d, a, a2))
          [] i.name = "AddRegReg" -> AddReg(c, RegOf(a1), c.registers[RegOf(a2)])
          [] i.name = "AddRegNum" -> AddReg(c, RegOf(a1), AsU32(a2))
          [] i.name = "AddRegMem" ->
                AtProgram(c, a2.v, LAMBDA d, a :
                    Bind(read_u32(d, a), LAMBDA e, val : AddReg(e, RegOf(a1), val)))
          [] i.name = "AddMemReg" ->
                Bind(read_u32(c, a1.v), LAMBDA d, val :
                    Checked(d, Add32(val, d.registers[RegOf(a2)]), LAMBDA e, sum :
                        write_u32(e, a1.v, sum)))
          [] i.name = "IncReg" -> AddReg(c, RegOf(a1), One32)
          [] i.name = "IncMem" -> Panic(c, "not yet implemented")
          [] i.name = "PushReg" -> push_stack(c, c.registers[RegOf(a1)])
          [] i.name = "PushMem" ->
                AtProgram(c, a1.v, LAMBDA d, a :
                    Bind(read_u32(d, a), LAMBDA e, val : push_stack(e, val)))
          [] i.name = "PushVal" -> push_stack(c, AsU32(a1))
          [] i.name = "PopReg" ->
                Bind(pop_stack(c), LAMBDA d, val : SetReg(d, RegOf(a1), val))
          [] i.name = "CmpReg" ->
                [c EXCEPT !.flags = Compare(RegOf(a1) = RegOf(a2), c.flags,
                                            c.registers[RegOf(a1)], c.registers[RegOf(a2)])]
          [] i.name = "CmpVal" ->
                [c EXCEPT !.flags = Compare(a1 = a2, c.flags, a1.v, a2.v)]
          [] i.name \in {"Jump", "JumpGe", "JumpGte", "JumpLt", "JumpLte"} ->
                IF Taken(i.name, c.flags) THEN JumpTo(c, a1.v) ELSE c
          [] i.name = "Call" -> ExecCall(c, a1.v)
          [] i.name = "Load" ->
                AtProgram(c, a2.v, LAMBDA d, a : LoadReg(d, RegOf(a1), a))
          [] i.name = "StoreReg" ->
                AtProgram(c, a1.v, LAMBDA d, a : write_u32(d, a, d.registers[RegOf(a2)]))
          [] i.name = "StoreVal" ->
                AtProgram(c, a1.v, LAMBDA d, a : WriteValue(d, a, a2))
          [] i.name = "Interrupt" -> handle_interrupt(c, a1.v)
          [] i.name = "InterruptReg" -> handle_interrupt(c, c.registers[RegOf(a1)])
          [] i.name = "Halt" -> c
          [] i.name = "Ret" -> restore_stack(c)

\* what the arm returns when it does not fail
Flow(i) == IF i.name = "Halt" THEN "Break" ELSE "Continue"

\* the Result of execute_instruction: Ok(flow), or the Err of the arm
Flowed(d, i) == Val(d, IF Ok(d) THEN Flow(i) ELSE "None")

execute_instruction(c, i) == Flowed(Execute(c, i), i)

\* the outcome of a step(): the Cpu, what was returned, what was fetched
Outcome(c, v, i) == [c |-> c, v |-> v, inst |-> i]

\* registers[IP] += increment_amount, after the arm and whatever it returned
Advance(e, i, ip) ==
    IF e.c.st = "panic" THEN Outcome(e.c, "None", i)
    ELSE IF ip.ovf /\ e.c.build = "debug" THEN Outcome(Arith(e.c, ip), "None", i)
    ELSE Outcome(SetReg(Arith(e.c, ip), IP, ip.val), e.v, i)

\* a step() that advances IP by the opcode byte alone
ExecutedByOne(e, i) == Advance(e, i, Add32(e.c.registers[IP], One32))

\* execute_instruction(inst), then the increment by the length of inst's opcode
Executed(e, i) ==
    Advance(e, i, Add32(e.c.registers[IP], N32(increment_amount(OpCodeFrom(i)))))

\* fetch_instruction()?, then the rest of step()
Fetched(f) ==
    IF ~Ok(f.c) THEN Outcome(f.c, "None", NoInst)
    ELSE Executed(execute_instruction(f.c, f.v), f.v)

\* Cpu::step
step(c) == Fetched(fetch_instruction(c))

-----------------------------------------------------------------------------
(* The images the machine is started on: a prefix that prepares registers,
   flags or the stack, one instruction of the menu, and a suffix. *)

U8s == {0, 7, 255}

U16s == {0, 300, 65535}

U32s == {Zero32, <<1, 2>>, MaxU32}

FarAddr == 24

Addrs == {Zero32, N32(6), N32(FarAddr), N32(MemSize - 2), MaxU32}

I1(name, a) == Ins(name, <<a>>)

I2(name, a, b) == Ins(name, <<a, b>>)

Halt == Ins("Halt", <<>>)

Ret == Ins("Ret", <<>>)

MenuMov ==
    {I2("MovRegMem", Reg(r), Addr(a)) : r \in {R1, IP}, a \in {Zero32, N32(FarAddr), MaxU32}}
    \cup {I2("MovRegReg", Reg(R1), Reg(R2)), I2("MovRegReg", Reg(IP), Reg(R1)),
          I2("MovRegReg", Reg(R1), Reg(RegisterLen))}
    \cup {I2("MovRegNum", Reg(R1), ValU8(n)) : n \in U8s}
    \cup {I2("MovRegNum", Reg(R1), ValU16(n)) : n \in U16s}
    \cup {I2("MovRegNum", Reg(R1), ValU32(x)) : x \in U32s}
    \cup {I2("MovRegNum", Reg(r), ValU8(7)) : r \in {IP, SP, RegisterLen}}
    \cup {I2("MovMemReg", Addr(a), Reg(R1)) : a \in {Zero32, N32(FarAddr), N32(MemSize - 2)}}
    \cup {I2("MovMemReg", Addr(Zero32), Reg(IP))}
    \cup {I2("MovMemNum", Addr(a), v) :
            a \in {N32(FarAddr), N32(MemSize - 2)},
            v \in {ValU8(255), ValU16(65535), ValU32(MaxU32)}}

MenuAdd ==
    {I2("AddRegReg", Reg(R1), Reg(R2)), I2("AddRegReg", Reg(R1), Reg(R1)),
     I2("AddRegReg", Reg(IP), Reg(R1))}
    \cup {I2("AddRegNum", Reg(R1), v) : v \in {ValU8(7), ValU16(300), ValU32(MaxU32)}}
    \cup {I2("AddRegNum", Reg(SP), ValU32(MaxU32))}
    \cup {I2("AddRegNum", Reg(RegisterLen), ValU8(7))}
    \cup {I2("AddRegMem", Reg(R1), Addr(a)) : a \in {Zero32, N32(FarAddr)}}
    \cup {I2("AddMemReg", Addr(a), Reg(R1)) : a \in {Zero32, N32(FarAddr)}}
    \cup {I1("IncReg", Reg(r)) : r \in {R1, IP, RegisterLen}}
    \cup {I1("IncMem", Addr(Zero32))}

MenuStack ==
    {I1("PushReg", Reg(r)) : r \in {R1, SP}}
    \cup {I1("PushMem", Addr(a)) : a \in {Zero32, N32(FarAddr)}}
    \cup {I1("PushVal", v) :
            v \in {ValU8(0), ValU8(255), ValU16(300), ValU32(<<1, 2>>), ValU32(MaxU32)}}
    \cup {I1("PopReg", Reg(r)) : r \in {R3, IP}}

MenuCmp ==
    {I2("CmpReg", Reg(R1), Reg(R2)), I2("CmpReg", Reg(R2), Reg(R1)),
     I2("CmpReg", Reg(R1), Reg(R1))}
    \cup {I2("CmpVal", ValU8(a), ValU8(b)) :
            a \in {0, 7}, b \in U8s}
    \cup {I2("CmpVal", ValU16(a), ValU16(b)) : a \in {300}, b \in U16s}
    \cup {I2("CmpVal", ValU32(a), ValU32(b)) : a \in {<<1, 2>>}, b \in U32s \cup {<<0, 3>>}}

MenuFlow ==
    {I1(j, Addr(a)) :
        j \in {"Jump", "JumpGe", "JumpGte", "JumpLt", "JumpLte"}, a \in {Zero32, N32(6)}}
    \cup {I1("Call", Addr(a)) : a \in {Zero32, N32(6), MaxU32}}
    \cup {Halt, Ret}
    \cup {I1("Interrupt", ValU32(Zero32))}
    \cup {I1("InterruptReg", Reg(r)) : r \in {R1, R2}}

MenuStore ==
    {I2("Load", Reg(r), Addr(N32(FarAddr))) : r \in {R1, IP}}
    \cup {I2("Load", Reg(R1), Addr(Zero32))}
    \cup {I2("StoreReg", Addr(N32(FarAddr)), Reg(R1))}
    \cup {I2("StoreVal", Addr(N32(FarAddr)), v) : v \in {ValU8(10), ValU16(300)}}
    \cup {I2("StoreVal", Addr(N32(MemSize - 2)), ValU32(MaxU32))}
    \cup {Data(OpByte("MovMemMem")), Data(200)}

Menu == MenuMov \cup MenuAdd \cup MenuStack \cup MenuCmp \cup MenuFlow \cup MenuStore

Prefixes ==
    { <<>>,
      <<I2("CmpVal", ValU16(300), ValU16(256))>>,
      <<I2("CmpVal", ValU16(1), ValU16(2))>>,
      <<I2("MovRegNum", Reg(R1), ValU8(7)), I2("MovRegNum", Reg(R2), ValU8(7))>>,
      <<I2("MovRegNum", Reg(R1), ValU8(7)), I2("MovRegNum", Reg(R2), ValU16(300))>>,
      <<I2("CmpVal", ValU16(300), ValU16(256)),
        I2("MovRegNum", Reg(R1), ValU8(7)), I2("MovRegNum", Reg(R2), ValU8(7))>>,
      <<I1("PushVal", ValU8(7))>> }

Suffixes ==
    { <<Halt>>, <<Ret>>, <<I1("PopReg", Reg(R3)), I1("PopReg", Reg(R4)), Halt>> }

\* n bytes of zero
Pad(n) == [k \in 1 .. n |-> Data(0)]

\* An image with an interrupt handler, after test::interrupt_reg: InterruptReg
\* on R1 = 0 and Halt, then data up to the handler i and a Halt.  Loaded at
\* address 2 with the interrupt table at 10, the table entry 0 is byte 8 of
\* the image and the handler is byte 11 (address 13), clear of the bytes
\* 2 .. 8 the context save writes; the entry holds 11 because step() adds the
\* length of InterruptReg, 2, to the IP that handle_interrupt sets.
Handler(i) ==
    <<I1("InterruptReg", Reg(R1)), Halt>> \o Pad(5) \o <<Data(11)>> \o Pad(2)
        \o <<i, Halt>>

Handlers == {Handler(I1("InterruptReg", Reg(R1))), Handler(Ret)}

\* the last address but two, where a word no longer fits below u32::MAX
NearTop == <<Half - 1, Half - 3>>

\* the images that take the stack to an end of the address space: a Ret
\* with FP near the top, a pop with SP near the top, a push with SP at 0
Ends ==
    {<<I2("MovRegNum", Reg(FP), ValU32(NearTop)), Ret, Halt>>,
     <<I2("MovRegNum", Reg(SP), ValU32(NearTop)), I1("PopReg", Reg(R3)), Halt>>,
     <<I2("MovRegNum", Reg(SP), ValU8(0)), I1("PushVal", ValU8(7)), Halt>>}

\* the images that build or take down a frame: an interrupt raised on the
\* constructed Cpu, and a Ret on a frame whose size word is 0xFFFFFFFF
Frames ==
    {<<I1("InterruptReg", Reg(R1)), Halt>>,
     <<I2("MovMemNum", Addr(N32(FarAddr)), ValU32(MaxU32)),
       I2("MovRegNum", Reg(FP), ValU8(FarAddr)), Ret, Halt>>}

\* the images of test::push_reg: a byte into R1, PushReg R1, Halt
PushRegs ==
    {<<I2("MovRegNum", Reg(R1), ValU8(v)), I1("PushReg", Reg(R1)), Halt>> : v \in U8s}

Programs ==
    {p \o <<i>> \o s : p \in Prefixes, i \in Menu, s \in Suffixes}
        \cup Handlers \cup PushRegs

\* the arguments of Cpu::new the machine is built with
Configs ==
    { [program_start |-> 0, stack_start |-> MemSize, interrupt_table |-> 0,
       size |-> N32(MemSize)],
      [program_start |-> 2, stack_start |-> MemSize - 1, interrupt_table |-> 10,
       size |-> N32(MemSize)] }

-----------------------------------------------------------------------------
(* The assembler (vm_assembler): the lexer of tokens.rs and Parser::parse of
   parser.rs.  A str is the sequence of its characters. *)

Digits == <<"0", "1", "2", "3", "4", "5", "6", "7", "8", "9">>

IsDigit(ch) == \E d \in 1 .. 10 : Digits[d] = ch

\* char::to_digit(10)
DigitOf(ch) == (CHOOSE d \in 1 .. 10 : Digits[d] = ch) - 1

\* 'a'..='z'
LowerCase ==
    {"a", "b", "c", "d", "e", "f", "g", "h", "i", "j", "k", "l", "m", "n", "o",
     "p", "q", "r", "s", "t", "u", "v", "w", "x", "y", "z"}

\* the outcome of str::parse::<uN>: Ok(v) or an IntErrorKind
Parsed(kind, v) == [kind |-> kind, v |-> v]

\* acc * 10 + d, as the pair of a hi that may exceed 16 bits and a lo
TimesTenPlus(acc, d) ==
    <<acc[1] * 10 + (acc[2] * 10 + d) \div Half, (acc[2] * 10 + d) % Half>>

\* the digits of str::parse::<uN> from the i-th on: checked_mul(10) and
\* checked_add(digit), PosOverflow above max, InvalidDigit at any other char
RECURSIVE ParseDigits(_, _, _, _)
ParseDigits(s, i, acc, max) ==
    IF i > Len(s) THEN Parsed("Ok", acc)
    ELSE IF ~IsDigit(s[i]) THEN Parsed("InvalidDigit", Zero32)
    ELSE IF \/ TimesTenPlus(acc, DigitOf(s[i]))[1] >= Half
            \/ Gt32(TimesTenPlus(acc, DigitOf(s[i])), max)
         THEN Parsed("PosOverflow", Zero32)
    ELSE ParseDigits(s, i + 1, TimesTenPlus(acc, DigitOf(s[i])), max)

\* str::parse::<uN>() of an unsigned type with maximum max: Empty for "", a
\* leading "+" is accepted when digits follow
StrParse(s, max) ==
    IF s = <<>> THEN Parsed("Empty", Zero32)
    ELSE IF s[1] = "+"
    THEN IF Len(s) = 1 THEN Parsed("InvalidDigit", Zero32)
         ELSE ParseDigits(s, 2, Zero32, max)
    ELSE ParseDigits(s, 1, Zero32, max)

MaxU8 == <<0, Byte - 1>>

MaxU16 == <<0, Half - 1>>

\* a Token, and the Result of a function that makes one
Tok(t, v) == [t |-> t, v |-> v]

Made(st, tok) == [st |-> st, tok |-> tok]

\* a Number that reads every literal as a U32
NumberParseWide(s) ==
    IF StrParse(s, MaxU32).kind = "Ok" THEN Made("Ok", Tok("U32", StrParse(s, MaxU32).v))
    ELSE IF StrParse(s, MaxU32).kind = "InvalidDigit" THEN Made("Err", Tok("None", <<>>))
    ELSE Made("panic", Tok("None", <<>>))

\* Number::parse: u8, on PosOverflow u16, on PosOverflow u32, on PosOverflow
\* panic!(); InvalidDigit is Err(InvalidNumber), Empty is panic!()
NumberParse(s) ==
    CASE StrParse(s, MaxU8).kind = "Ok" -> Made("Ok", Tok("U8", StrParse(s, MaxU8).v))
      [] StrParse(s, MaxU8).kind = "InvalidDigit" -> Made("Err", Tok("None", <<>>))
      [] StrParse(s, MaxU8).kind = "Empty" -> Made("panic", Tok("None", <<>>))
      [] StrParse(s, MaxU16).kind = "Ok" -> Made("Ok", Tok("U16", StrParse(s, MaxU16).v))
      [] StrParse(s, MaxU16).kind = "InvalidDigit" -> Made("Err", Tok("None", <<>>))
      [] StrParse(s, MaxU32).kind = "Ok" -> Made("Ok", Tok("U32", StrParse(s, MaxU32).v))
      [] StrParse(s, MaxU32).kind = "InvalidDigit" -> Made("Err", Tok("None", <<>>))
      [] OTHER -> Made("panic", Tok("None", <<>>))

\* Address::parse (tokens.rs): the u32 between '[' and the first ']'; a ']'
\* with no '[' before it fails the assert; start is 0 for None
RECURSIVE AddressParseFrom(_, _, _)
AddressParseFrom(s, i, start) ==
    IF i > Len(s) THEN Made("Err", Tok("None", <<>>))
    ELSE IF s[i] = "[" THEN AddressParseFrom(s, i + 1, i + 1)
    ELSE IF s[i] = "]"
    THEN IF start = 0 THEN Made("panic", Tok("None", <<>>))
         ELSE IF StrParse(SubSeq(s, start, i - 1), MaxU32).kind = "Ok"
         THEN Made("Ok", Tok("Address", StrParse(SubSeq(s, start, i - 1), MaxU32).v))
         ELSE Made("Err", Tok("None", <<>>))
    ELSE AddressParseFrom(s, i + 1, start)

AddressParse(s) == AddressParseFrom(s, 1, 0)

\* Register::from_str: the lower-case names of the registers
RegisterNames ==
    <<<<"i", "p">>, <<"s", "p">>, <<"f", "p">>, <<"r", "1">>, <<"r", "2">>,
      <<"r", "3">>, <<"r", "4">>, <<"r", "5">>, <<"r", "6">>, <<"r", "7">>,
      <<"r", "8">>>>

RegisterFromStrOk(s) == \E r \in 1 .. RegisterLen : RegisterNames[r] = s

RegisterFromStr(s) == (CHOOSE r \in 1 .. RegisterLen : RegisterNames[r] = s) - 1

\* Result::unwrap on the Address of a word that holds a ']'
Unwrapped(r) == IF r.st = "Ok" THEN r ELSE Made("panic", Tok("None", <<>>))

\* lex_word, after its loop: a register name, else an address, else a number,
\* else an identifier
Classify(word) ==
    IF RegisterFromStrOk(word) THEN Made("Ok", Tok("Register", <<RegisterFromStr(word)>>))
    ELSE IF AddressParse(word).st # "Err" THEN AddressParse(word)
    ELSE IF NumberParse(word).st # "Err" THEN NumberParse(word)
    ELSE Made("Ok", Tok("Identifier", word))

\* lex_word, its loop from the i-th char on; start is 0 for None
RECURSIVE LexWordFrom(_, _, _)
LexWordFrom(word, i, start) ==
    IF i > Len(word) THEN Classify(word)
    ELSE IF word[i] = "," THEN Made("Ok", Tok("Comma", <<>>))
    ELSE IF word[i] = " " THEN Made("Ok", Tok("Space", <<>>))
    ELSE IF word[i] = "[" THEN LexWordFrom(word, i + 1, i)
    ELSE IF word[i] = "]"
    THEN IF start = 0 THEN Made("panic", Tok("None", <<>>))
         ELSE Unwrapped(AddressParse(SubSeq(word, start, i)))
    ELSE IF word[i] \in LowerCase
    THEN LexWordFrom(word, i + 1, IF start = 0 THEN i ELSE start)
    ELSE LexWordFrom(word, i + 1, start)

lex_word(word) == LexWordFrom(word, 1, 0)

\* the Lexer so far: its tokens, or the panic of an unwrap
Lexer(st, tokens) == [st |-> st, tokens |-> tokens]

\* tokens.push(lex_word(word).unwrap())
PushWord(l, word) ==
    IF l.st # "Ok" THEN l
    ELSE IF lex_word(word).st # "Ok" THEN Lexer("panic", l.tokens)
    ELSE Lexer("Ok", Append(l.tokens, lex_word(word).tok))

\* tokens.push(token)
PushTok(l, tok) == IF l.st # "Ok" THEN l ELSE Lexer("Ok", Append(l.tokens, tok))

\* the word that ends before the i-th char, when one has started
Flushed(l, text, start, i) ==
    IF start = 0 THEN l ELSE PushWord(l, SubSeq(text, start, i - 1))

\* Lexer::lex, its loop from the i-th char on: '\n' ends a word, ',' ends a
\* word and is a Comma, ' ' ends a word and is a Space
RECURSIVE LexFrom(_, _, _, _)
LexFrom(text, i, start, l) ==
    IF i > Len(text) THEN Flushed(l, text, start, i)
    ELSE IF text[i] = "\n" THEN LexFrom(text, i + 1, 0, Flushed(l, text, start, i))
    ELSE IF text[i] = ","
    THEN LexFrom(text, i + 1, 0, PushTok(Flushed(l, text, start, i), Tok("Comma", <<>>)))
    ELSE IF text[i] = " "
    THEN LexFrom(text, i + 1, 0, PushTok(Flushed(l, text, start, i), Tok("Space", <<>>)))
    ELSE LexFrom(text, i + 1, IF start = 0 THEN i ELSE start, l)

lex(text) == LexFrom(text, 1, 0, Lexer("Ok", <<>>))

\* keywords!: the lower-case names KeyWord::from_str accepts
KeyWords ==
    {<<"m", "o", "v">>, <<"a", "d", "d">>, <<"l", "o", "a", "d">>,
     <<"j", "u", "m", "p">>, <<"p", "u", "s", "h">>, <<"p", "o", "p">>,
     <<"c", "a", "l", "l">>, <<"r", "e", "t">>, <<"h", "a", "l", "t">>,
     <<"c", "m", "p">>, <<"i", "n", "c">>, <<"s", "t", "o", "r", "e">>,
     <<"i", "n", "t", "e", "r", "r", "u", "p", "t">>}

\* an AstNode: Token(token), Label(address), Ident(s) or KeyWord(keyword)
AstNode(t, v) == [t |-> t, v |-> v]

\* impl From<Token> for AstNode
AstNodeFrom(tok) ==
    CASE tok.t = "Address" -> AstNode("Label", tok.v)
      [] tok.t = "Identifier" -> AstNode("Ident", tok.v)
      [] OTHER -> AstNode("Token", tok)

\* AstNode::byte_size: <<n>> for Some(n), <<>> for None
byte_size(node) ==
    IF node.t # "Token" THEN <<>>
    ELSE CASE node.v.t = "Register" -> <<1>>
           [] node.v.t = "U8" -> <<1>>
           [] node.v.t = "U16" -> <<2>>
           [] node.v.t = "U32" -> <<4>>
           [] node.v.t = "Address" -> <<4>>
           [] OTHER -> <<>>

\* the Parser: its ast, its resolved_labels, and the addr of parse
ParserOf(nodes, labels, at) == [ast |-> nodes, resolved_labels |-> labels, addr |-> at]

\* HashMap::insert
Inserted(m, key, value) ==
    [x \in (DOMAIN m) \cup {key} |-> IF x = key THEN value ELSE m[x]]

\* s.ends_with(":")
EndsWithColon(s) == Len(s) > 0 /\ s[Len(s)] = ":"

\* the arm Token::Identifier(s) of the first loop of parse
ParseIdentifier(p, s) ==
    IF s \in KeyWords THEN [p EXCEPT !.ast = Append(@, AstNode("KeyWord", s))]
    ELSE IF EndsWithColon(s)
    THEN [p EXCEPT !.resolved_labels =
                        Inserted(@, SubSeq(s, 1, Len(s) - 1), N32(p.addr)),
                   !.addr = @ + 4]
    ELSE [p EXCEPT !.ast = Append(@, AstNode("Ident", s))]

\* the other arm: addr += byte_size, and the node is pushed
ParseOther(p, node) ==
    [p EXCEPT !.addr = IF byte_size(node) = <<>> THEN @ ELSE @ + byte_size(node)[1],
              !.ast = Append(@, node)]

\* the first loop of Parser::parse, from the k-th token on
RECURSIVE FirstLoop(_, _, _)
FirstLoop(tokens, k, p) ==
    IF k > Len(tokens) THEN p
    ELSE FirstLoop(tokens, k + 1,
                   IF tokens[k].t = "Identifier"
                   THEN ParseIdentifier(p, tokens[k].v)
                   ELSE ParseOther(p, AstNodeFrom(tokens[k])))

\* a second loop that resolves nothing
SecondLoopIdle(p) == p

\* the second loop: an Ident that names a resolved label becomes its Label
SecondLoop(p) ==
    [p EXCEPT !.ast =
        [n \in 1 .. Len(p.ast) |->
            IF p.ast[n].t = "Ident" /\ p.ast[n].v \in DOMAIN p.resolved_labels
            THEN AstNode("Label", p.resolved_labels[p.ast[n].v])
            ELSE p.ast[n]]]

\* the Result of Parser::parse: Ok(parser), Err(EmptyFile), or a panic
ParseResult(st, p) == [st |-> st, parser |-> p]

NoLabels == [x \in {} |-> Zero32]

ParserDefault == ParserOf(<<>>, NoLabels, 0)

\* Parser::parse
parse(text) ==
    IF text = <<>> THEN ParseResult("EmptyFile", ParserDefault)
    ELSE IF lex(text).st # "Ok" THEN ParseResult("panic", ParserDefault)
    ELSE ParseResult("Ok", SecondLoop(FirstLoop(lex(text).tokens, 1, ParserDefault)))

\* the little-endian bytes of a u16
U16ToLeBytes(x) == <<x[2] % Byte, x[2] \div Byte>>

\* the bytes one node contributes in Ast::into_bytes
NodeBytes(node) ==
    CASE node.t = "Label" -> ToLeBytes(node.v)
      [] node.t = "Token" /\ node.v.t = "Register" -> <<node.v.v[1]>>
      [] node.t = "Token" /\ node.v.t = "U8" -> <<node.v.v[2]>>
      [] node.t = "Token" /\ node.v.t = "U16" -> U16ToLeBytes(node.v.v)
      [] node.t = "Token" /\ node.v.t = "U32" -> ToLeBytes(node.v.v)
      [] node.t = "Token" /\ node.v.t = "Address" -> ToLeBytes(node.v.v)
      [] OTHER -> <<>>

\* Ast::into_bytes
into_bytes(nodes) == Flatten([n \in 1 .. Len(nodes) |-> NodeBytes(nodes[n])])

\* number of words of a source text tried
MaxWords == 3

\* the words the sources are made of: uses and definitions of the labels f
\* and g, a keyword and a label of its name, a register, literals, an address
WordMenu ==
    {<<"f">>, <<"f", ":">>, <<"g">>, <<"g", ":">>, <<"r", "e", "t">>,
     <<"r", "e", "t", ":">>, <<"r", "1">>, <<"7">>, <<"3", "0", "0">>,
     <<"[", "4", "]">>}

\* the decimal literals tried, each with the number it denotes
Literals ==
    {[s |-> <<"0">>, n |-> Zero32],
     [s |-> <<"7">>, n |-> N32(7)],
     [s |-> <<"0", "0", "7">>, n |-> N32(7)],
     [s |-> <<"2", "5", "5">>, n |-> N32(255)],
     [s |-> <<"2", "5", "6">>, n |-> N32(256)],
     [s |-> <<"3", "0", "0">>, n |-> N32(300)],
     [s |-> <<"6", "5", "5", "3", "5">>, n |-> N32(65535)],
     [s |-> <<"6", "5", "5", "3", "6">>, n |-> N32(65536)],
     [s |-> <<"1", "0", "0", "0", "0", "0">>, n |-> N32(100000)],
     [s |-> <<"4", "2", "9", "4", "9", "6", "7", "2", "9", "5">>, n |-> MaxU32]}

\* the texts that are no program: nothing, a literal above u32::MAX, a ']'
\* with no '[' before it
Malformed ==
    {<<>>, <<"4", "2", "9", "4", "9", "6", "7", "2", "9", "6">>, <<"f", "]">>}

\* the words ws joined by the separator sep
RECURSIVE Joined(_, _)
Joined(ws, sep) ==
    IF Len(ws) = 0 THEN <<>>
    ELSE IF Len(ws) = 1 THEN ws[1]
    ELSE ws[1] \o <<sep>> \o Joined(Tail(ws), sep)

\* the sequences of 1 to n words of the menu
RECURSIVE WordSeqs(_)
WordSeqs(n) ==
    IF n = 0 THEN {<<>>}
    ELSE {<<w>> \o ws : w \in WordMenu, ws \in WordSeqs(n - 1)} \cup WordSeqs(n - 1)

\* the source texts handed to Parser::parse
Sources ==
    {Joined(ws, sep) : ws \in WordSeqs(MaxWords) \ {<<>>}, sep \in {" ", "\n"}}
        \cup {l.s : l \in Literals} \cup Malformed

\* no text has been handed to the assembler
AsmIdle ==
    /\ data = <<>>
    /\ ast = <<>>
    /\ resolved_labels = NoLabels
    /\ parsed = "none"

-----------------------------------------------------------------------------
(* The machine *)

\* Registers::new, the u32 subtraction stack_start - 2
NewFP(ss) == Sub32(N32(ss), N32(2))

\* Registers::new
RegistersNew(ps, ss) ==
    [RegistersDefault EXCEPT ![IP] = N32(ps), ![SP] = N32(ss), ![FP] = NewFP(ss).val]

\* Registers::new panics: stack_start - 2 underflows in a build with
\* overflow checks
NewPanics(ss, b) == NewFP(ss).ovf /\ b = "debug"

\* Stack::new and write_bytes(program_start, image): the loaded memory
Loaded(ps, bytes) ==
    [a \in 0 .. (MemSize - 1) |->
        IF a >= ps /\ a < ps + Len(bytes) THEN bytes[a - ps + 1] ELSE 0]

\* a stack_start below 2, tried on the images of test::push_reg
LowConfigs ==
    {[program_start |-> 0, stack_start |-> 1, interrupt_table |-> 0,
      size |-> N32(MemSize)]}

\* a stack of five bytes below the image, tried on the images of Frames
ShortConfigs ==
    {[program_start |-> 8, stack_start |-> 5, interrupt_table |-> 20,
      size |-> N32(MemSize)]}

\* Stack::<{ u32::MAX as usize }>, the memory of vm_assembler's main, tried on
\* the images that take the stack to an end of the address space
WholeConfigs ==
    {[program_start |-> 0, stack_start |-> MemSize, interrupt_table |-> 10,
      size |-> MaxU32]}

\* the images and the arguments of Cpu::new the machine is started on
Starts ==
    (Programs \X Configs) \cup (PushRegs \X LowConfigs)
        \cup (Ends \X WholeConfigs) \cup (Frames \X (ShortConfigs \cup WholeConfigs))

\* Cpu::new(memory, program_start, stack_start, interrupt_table) in the build
\* b, on a memory that holds the image p.  Where Registers::new panics no
\* Cpu comes to be: the registers are the ones assigned so far and the
\* process has aborted.
Constructed(p, cfg, b) ==
    /\ prog = p
    /\ memory = Loaded(cfg.program_start, Image(p))
    /\ above = [a \in {} |-> 0]
    /\ size = cfg.size
    /\ registers =
            IF NewPanics(cfg.stack_start, b)
            THEN [RegistersDefault EXCEPT ![IP] = N32(cfg.program_start),
                                          ![SP] = N32(cfg.stack_start)]
            ELSE RegistersNew(cfg.program_start, cfg.stack_start)
    /\ interrupt_table = N32(cfg.interrupt_table)
    /\ in_interrupt = FALSE
    /\ program_start = N32(cfg.program_start)
    /\ stack_start = N32(cfg.stack_start)
    /\ flags = "Eq"
    /\ build = IF NewFP(cfg.stack_start).ovf THEN b ELSE "any"
    /\ caller = IF NewPanics(cfg.stack_start, b) THEN "aborted" ELSE "host"
    /\ result = IF NewPanics(cfg.stack_start, b) THEN "panic" ELSE "None"
    /\ error = NoError
    /\ inst = NoInst
    /\ halted = FALSE
    /\ steps = 0
    /\ faults = 0

Init ==
    /\ \E s \in Starts, b \in {"debug", "release"} : Constructed(s[1], s[2], b)
    /\ AsmIdle

\* the Cpu as one call of step() finds it
Self(b) ==
    [flags |-> flags, registers |-> registers, interrupt_table |-> interrupt_table,
     in_interrupt |-> in_interrupt, program_start |-> program_start,
     memory |-> memory, above |-> above, size |-> size, build |-> b,
     st |-> "ok", err |-> NoError, ovf |-> FALSE]

\* The outcomes of one step(): one, unless a u32 operation overflows while the
\* build is not known yet; then the checked and the wrapping outcome.
Builds == IF build = "any" THEN {"debug", "release"} ELSE {build}

\* the build stays open while nothing has overflowed
Known(o) == IF build = "any" /\ ~o.c.ovf THEN [o EXCEPT !.c.build = "any"] ELSE o

Outcomes == {Known(step(Self(b))) : b \in Builds}

\* what the call returned: Continue, Break, Err, or a panic
Returned(o) ==
    CASE o.c.st = "panic" -> "panic"
      [] o.c.st = "err" -> "Err"
      [] OTHER -> o.v

\* the state after a call of step() with outcome o, control going to who
Commit(o, who) ==
    /\ flags' = o.c.flags
    /\ registers' = o.c.registers
    /\ interrupt_table' = o.c.interrupt_table
    /\ in_interrupt' = o.c.in_interrupt
    /\ program_start' = o.c.program_start
    /\ memory' = o.c.memory
    /\ above' = o.c.above
    /\ build' = o.c.build
    /\ result' = Returned(o)
    /\ error' = o.c.err
    /\ inst' = o.inst
    /\ halted' = (halted \/ Returned(o) = "Break")
    /\ steps' = steps + 1
    /\ faults' = faults + (IF Returned(o) = "Err" THEN 1 ELSE 0)
    /\ caller' = who
    /\ UNCHANGED <<prog, stack_start, size>>
    /\ UNCHANGED asmvars

\* the embedder calls step()
Step ==
    /\ caller = "host"
    /\ steps < MaxSteps
    /\ \E o \in Outcomes :
          Commit(o, IF Returned(o) = "panic" THEN "aborted" ELSE "host")

\* the embedder calls execute()
CallExecute ==
    /\ caller = "host"
    /\ steps < MaxSteps
    /\ caller' = "execute"
    /\ UNCHANGED <<flags, registers, interrupt_table, in_interrupt, program_start,
                   memory, above, size, build, result, error, inst, halted, prog, stack_start,
                   steps, faults>>
    /\ UNCHANGED asmvars

\* an execute() that goes on with the next step() after an Err
ExecuteLoopRetrying ==
    /\ caller = "execute"
    /\ steps < MaxSteps
    /\ \E o \in Outcomes :
          Commit(o, CASE Returned(o) \in {"Continue", "Err"} -> "execute"
                      [] Returned(o) = "Break" -> "host"
                      [] OTHER -> "aborted")

\* Cpu::execute, one turn of its loop: Continue goes on, Break returns, an
\* Err panics
ExecuteLoop ==
    /\ caller = "execute"
    /\ steps < MaxSteps
    /\ \E o \in Outcomes :
          Commit(o, CASE Returned(o) = "Continue" -> "execute"
                      [] Returned(o) = "Break" -> "host"
                      [] OTHER -> "aborted")

Next == Step \/ CallExecute \/ ExecuteLoop

Spec == Init /\ [][Next]_vars

-----------------------------------------------------------------------------
(* The assembler run on one source text, beside a Cpu that is not stepped *)

\* the Cpu of test::setup_cpu with a Halt at address 0
Parked ==
    Constructed(<<Halt>>,
                [program_start |-> 0, stack_start |-> MemSize, interrupt_table |-> 0,
                 size |-> N32(MemSize)],
                "debug")

AsmInit ==
    /\ Parked
    /\ data \in Sources
    /\ ast = <<>>
    /\ resolved_labels = NoLabels
    /\ parsed = "none"

\* Parser::parse(data)
Parse ==
    /\ parsed = "none"
    /\ \E r \in {parse(data)} :
          /\ parsed' = r.st
          /\ ast' = r.parser.ast
          /\ resolved_labels' = r.parser.resolved_labels
    /\ UNCHANGED data
    /\ UNCHANGED cpuvars

AsmNext == Parse

AsmSpec == AsmInit /\ [][AsmNext]_vars

-----------------------------------------------------------------------------
(* Properties *)

\* a call of step() has returned
Stepped == steps' = steps + 1

\* the instructions that redirect control: jumps, Call, Ret, interrupts, Halt
ControlFlow ==
    {"Jump", "JumpGe", "JumpGte", "JumpLt", "JumpLte", "Call", "Ret",
     "Interrupt", "InterruptReg", "Halt"}

\* the register an instruction assigns, RegisterLen when it assigns none
Destination(i) ==
    CASE i.name \in {"MovRegReg", "MovRegNum", "AddRegReg", "AddRegNum",
                     "AddRegMem", "IncReg", "PopReg", "Load"} -> RegOf(i.args[1])
      [] i.name = "MovMemReg" -> RegOf(i.args[2])
      [] OTHER -> RegisterLen

\* the opcode of the byte at IP, and IP advanced by its increment_amount
FetchedOp == OpCodeTryFrom(ByteAt(Self(build), registers[IP]))

Advanced == Add32(registers[IP], N32(increment_amount(FetchedOp))).val

\* a step() that succeeded on an instruction that is not control flow
PlainStep ==
    /\ Stepped
    /\ result' \in {"Continue", "Break"}
    /\ inst'.name \notin ControlFlow

\* C1, as stated: after a successful step() on an instruction that is not a
\* jump, call, return, interrupt or halt, IP is its value before the step
\* plus increment_amount of the opcode byte fetched at IP.
C1_AnyPlainStepAdvances == [][PlainStep => registers'[IP] = Advanced]_vars

\* C1, amended: the same for the instructions that do not assign register IP.
C1_PlainStepAdvances ==
    [][(PlainStep /\ Destination(inst') # IP) => registers'[IP] = Advanced]_vars

\* C1: a MovRegU8 into R1 at program_start has been stepped over
C1_Witness ==
    /\ steps = 1
    /\ result = "Continue"
    /\ inst = I2("MovRegNum", Reg(R1), ValU8(7))
    /\ registers[R1] = N32(7)
    /\ registers[IP] = Add32(program_start, N32(3)).val

\* C2: after a successful step() that executes Jump(addr), a taken
\* conditional jump or Call(addr), IP is exactly program_start + addr.
C2_JumpSetsIP ==
    [][(/\ Stepped
        /\ result' = "Continue"
        /\ inst'.name \in {"Jump", "JumpGe", "JumpGte", "JumpLt", "JumpLte", "Call"}
        /\ (\/ inst'.name \in {"Jump", "Call"}
            \/ inst'.name = "JumpGe" /\ flags = "Gt"
            \/ inst'.name = "JumpGte" /\ flags \in {"Gt", "Gte"}
            \/ inst'.name = "JumpLt" /\ flags = "Lt"
            \/ inst'.name = "JumpLte" /\ flags \in {"Lt", "Lte"}))
       => registers'[IP] = Add32(program_start, inst'.args[1].v).val]_vars

\* C3: once a step() has executed Halt, a later step() returns the halt
\* signal again and changes no register and no memory byte.
C3_HaltIsTerminal ==
    [][(halted /\ Stepped)
       => (result' = "Break" /\ registers' = registers /\ memory' = memory)]_vars

\* the image is n pushes of immediates, n pops and Halt
PushPop(n) ==
    /\ Len(prog) = 2 * n + 1
    /\ \A k \in 1 .. n : prog[k].name = "PushVal"
    /\ \A k \in (n + 1) .. (2 * n) :
            prog[k].name = "PopReg" /\ RegOf(prog[k].args[1]) \in {R3, R4}

\* C4: after n pushes and then n pops SP is back at its starting value and
\* the k-th pop has returned the value of the push it matches, last in first
\* out.
C4_StackBalance ==
    \A n \in 1 .. 2 :
        (PushPop(n) /\ steps = 2 * n /\ faults = 0 /\ caller # "aborted")
        => /\ registers[SP] = stack_start
           /\ \A k \in 1 .. n :
                registers[RegOf(prog[n + k].args[1])] = AsU32(prog[n + 1 - k].args[1])

\* the image sets R1 and R2, calls, and the callee returns at once
CallRet ==
    /\ Len(prog) = 4
    /\ prog[1].name = "MovRegNum" /\ RegOf(prog[1].args[1]) = R1
    /\ prog[2].name = "MovRegNum" /\ RegOf(prog[2].args[1]) = R2
    /\ prog[3].name = "Call"
    /\ prog[4] = Ret

\* C5: Call and then, in the callee, Ret restore R1, R2, R3, R4 and IP to
\* the values they had right before the Call, and FP to its value before it.
C5_CallRetSymmetry ==
    (CallRet /\ steps = 4 /\ inst = Ret /\ result = "Continue" /\ faults = 0)
    => /\ registers[R1] = AsU32(prog[1].args[2])
       /\ registers[R2] = AsU32(prog[2].args[2])
       /\ registers[R3] = Zero32
       /\ registers[R4] = Zero32
       /\ registers[IP] =
            Add32(program_start, N32(Len(Image(SubSeq(prog, 1, 2))))).val
       /\ registers[FP] = Sub32(stack_start, N32(2)).val

\* every register operand of the instruction is a Register
Legal(i) ==
    /\ i.name # "Data"
    /\ \A k \in 1 .. Len(i.args) : i.args[k].k = "reg" => RegOf(i.args[k]) \in Register

\* C6: decoding the bytes that encode an instruction yields that instruction,
\* every operand equal to the encoded one: the instruction the first step()
\* of an image fetches is the first instruction of the image.
C6_DecodeEncode == (steps = 1 /\ Legal(prog[1]) /\ inst # NoInst) => inst = prog[1]

\* the operand bytes of an instruction: 1 per register, 4 per address, 1, 2
\* or 4 per immediate
RECURSIVE OperandBytes(_)
OperandBytes(args) ==
    IF args = <<>> THEN 0 ELSE Width(Head(args).k) + OperandBytes(Tail(args))

\* the number of bytes of the operand window step() fetches for an opcode
WindowLen(op) == Sub32(WindowEnd(One32, op).val, One32).val[2]

\* C7: increment_amount of a fetched instruction is 1 plus the number of its
\* operand bytes, and the operand window fetched for it has increment_amount
\* minus 1 bytes.
C7_IncrementIsLength ==
    (steps >= 1 /\ inst # NoInst)
    => /\ increment_amount(OpCodeFrom(inst)) = 1 + OperandBytes(inst.args)
       /\ WindowLen(OpCodeFrom(inst)) = increment_amount(OpCodeFrom(inst)) - 1

\* the outcome of comparing two u32 values
Ordering(a, b) == IF Gt32(a, b) THEN "Gt" ELSE IF Lt32(a, b) THEN "Lt" ELSE "Eq"

\* C8: after the step() of a CmpU8, CmpU16 or CmpU32 that encodes (a, b),
\* Flags is Gt iff a > b, Lt iff a < b, Eq iff a = b.
C8_CmpValFlags ==
    (steps = 1 /\ prog[1].name = "CmpVal" /\ result = "Continue")
    => flags = Ordering(AsU32(prog[1].args[1]), AsU32(prog[1].args[2]))

\* C9: CmpReg(a, b) sets Flags from the values of the two registers,
\* whatever Flags held before: Eq when they are equal, Gt when value(a) is
\* larger, Lt when it is smaller.
C9_CmpRegFlags ==
    [][(Stepped /\ inst'.name = "CmpReg" /\ result' = "Continue")
       => flags' = Ordering(registers[RegOf(inst'.args[1])],
                            registers[RegOf(inst'.args[2])])]_vars

\* C10: a conditional jump sets IP to program_start + addr when Flags is in
\* its class (JumpGe: Gt; JumpGte: Gt, Gte; JumpLt: Lt; JumpLte: Lt, Lte),
\* and otherwise IP only advances by the length of the instruction.
C10_ConditionalJump ==
    [][(/\ Stepped
        /\ result' = "Continue"
        /\ inst'.name \in {"JumpGe", "JumpGte", "JumpLt", "JumpLte"})
       => registers'[IP] =
            IF \/ inst'.name = "JumpGe" /\ flags = "Gt"
               \/ inst'.name = "JumpGte" /\ flags \in {"Gt", "Gte"}
               \/ inst'.name = "JumpLt" /\ flags = "Lt"
               \/ inst'.name = "JumpLte" /\ flags \in {"Lt", "Lte"}
            THEN Add32(program_start, inst'.args[1].v).val
            ELSE Advanced]_vars

\* the instructions that write memory at their address operand
WritesMemory == {"MovRegMem", "MovMemNum", "AddMemReg", "StoreReg", "StoreVal"}

\* the address operand of an instruction
AddressOf(i) == (CHOOSE k \in 1 .. Len(i.args) : i.args[k].k = "addr")

\* byte a of the memory lies in the word at base
InWord(a, base) == \E k \in 0 .. 3 : Add32(base, N32(k)).val = N32(a)

\* program_start + the address operand of the instruction
Target(i) == Add32(program_start, i.args[AddressOf(i)].v)

\* C11: an instruction that carries an address operand accesses memory at
\* program_start + operand_address, whatever program_start is: a successful
\* step() of MovRegMem, MovMemNum, AddMemReg, StoreReg or StoreVal whose
\* word at program_start + operand_address lies in the memory changes no
\* memory byte outside that word.
C11_ProgramRelative ==
    [][(/\ Stepped
        /\ result' = "Continue"
        /\ inst'.name \in WritesMemory
        /\ ~Target(inst').ovf
        /\ InBounds(Add32(Target(inst').val, N32(3)).val))
       => \A a \in 0 .. (MemSize - 1) :
            memory'[a] # memory[a] => InWord(a, Target(inst').val)]_vars

\* the little-endian 32-bit word the memory m holds at address a
WordAt(m, a) ==
    IF InBounds(a) /\ a[2] + 3 < MemSize
    THEN FromLeBytes(m[a[2]], m[a[2] + 1], m[a[2] + 2], m[a[2] + 3])
    ELSE Zero32

\* the byte at IP is the opcode op
AtOpcode(op) == InBounds(registers[IP]) /\ memory[registers[IP][2]] = OpByte(op)

\* the 32-bit immediate that follows the opcode byte at IP
Immediate == WordAt(memory, Add32(registers[IP], One32).val)

\* C12: a step() on Interrupt(idx) while in_interrupt is false succeeds, sets
\* in_interrupt, and leaves IP equal to the 32-bit word at interrupt_table +
\* idx, the entry of the handler.
C12_InterruptDispatch ==
    [][(Stepped /\ ~in_interrupt /\ AtOpcode("Interrupt"))
       => /\ result' = "Continue"
          /\ in_interrupt'
          /\ registers'[IP] = WordAt(memory', Add32(interrupt_table, Immediate).val)]_vars

\* the registers a context save or a push would change
Saved == {SP, FP, R1, R2, R3, R4, R5, R6, R7, R8}

Leaves(o) ==
    /\ result' = Returned(o)
    /\ registers' = o.c.registers
    /\ memory' = o.c.memory
    /\ in_interrupt' = o.c.in_interrupt

\* the outcome of a step() that has fetched InterruptReg(r)
ByRegister(b, r) ==
    Executed(execute_instruction(Self(b), I1("InterruptReg", Reg(r))),
             I1("InterruptReg", Reg(r)))

\* C14: Interrupt(idx) and InterruptReg(reg) with idx the value of reg leave
\* the same registers (IP included), the same stack and the same
\* in_interrupt: a step() on Interrupt(idx) leaves what a step() that
\* fetched InterruptReg(R1) leaves from the same state, when R1 = idx.
C14_InterruptRegEquivalent ==
    [][(Stepped /\ AtOpcode("Interrupt") /\ registers[R1] = Immediate)
       => \E b \in Builds : Leaves(ByRegister(b, R1))]_vars

\* C15: after a first interrupt whose handler is Ret, R1..R4 and IP hold
\* the values they had before the interrupt (IP at the interrupting
\* instruction or right after it) and FP is the caller's frame again: the
\* Ret reads back the frame the context save wrote.
C15_InterruptRetRestores ==
    (prog = Handler(Ret) /\ steps = 2 /\ inst = Ret)
    => /\ result = "Continue"
       /\ \A r \in {R1, R2, R3, R4} : registers[r] = Zero32
       /\ registers[IP] \in {program_start, Add32(program_start, N32(2)).val}
       /\ registers[FP] = Sub32(stack_start, N32(2)).val

\* the byte at IP is the encoding of no OpCode
AtInvalidOpCode == InBounds(registers[IP]) /\ ~OpCodeTryFromOk(memory[registers[IP][2]])

\* C16: when the byte at IP encodes no OpCode, step() returns the error
\* InvalidOpCode(byte) and leaves every register (IP included), every memory
\* byte, Flags and in_interrupt unchanged.
C16_InvalidOpCode ==
    [][(Stepped /\ AtInvalidOpCode)
       => /\ result' = "Err"
          /\ error' = [kind |-> "InvalidOpCode", byte |-> memory[registers[IP][2]]]
          /\ registers' = registers
          /\ memory' = memory
          /\ flags' = flags
          /\ in_interrupt' = in_interrupt]_vars

\* C16: a step() has failed on the byte 200 that follows two instructions
C16_Witness ==
    /\ steps = 3
    /\ result = "Err"
    /\ error = [kind |-> "InvalidOpCode", byte |-> 200]
    /\ memory[registers[IP][2]] = 200
    /\ registers[R2] = N32(300)
    /\ faults = 1

\* the bytes at IP, as far as the longest instruction reaches
ValueAtIP == [k \in 1 .. 9 |-> memory[registers[IP][2] + k - 1]]

\* the bytes of value that encode a register operand of the opcode op
RegisterBytes(op, value) ==
    {value[Operands(op)[k].at + 2] :
        k \in {j \in 1 .. Len(Operands(op)) : Operands(op)[j].k = "reg"}}

\* the decoding r has failed with InvalidRegister of one of the bytes bad
RegisterError(r, bad) ==
    r.st = "err" /\ r.err.kind = "InvalidRegister" /\ r.err.byte \in bad

\* IP is at an instruction of the op_codes! table with a register operand
\* byte that is no Register
AtInvalidRegister ==
    /\ InBounds(registers[IP])
    /\ registers[IP][2] + 8 < MemSize
    /\ memory[registers[IP][2]] < Len(OpTable)
    /\ RegisterBytes(FetchedOp, ValueAtIP) \ Register # {}

\* C17: a register operand byte outside 0..=10 makes decoding fail with the
\* error value InvalidRegister(byte), never an abort, in the decoder of
\* step() (fetch_instruction) and in Instruction::try_from.
C17_InvalidRegisterIsError ==
    AtInvalidRegister
    => /\ RegisterError(fetch_instruction(Self("debug")).c,
                        RegisterBytes(FetchedOp, ValueAtIP) \ Register)
       /\ RegisterError(InstructionTryFrom(ValueAtIP),
                        RegisterBytes(FetchedOp, ValueAtIP) \ Register)

\* the instructions that read or write memory at program_start + address
AccessesMemory ==
    {"MovRegMem", "MovMemReg", "MovMemNum", "AddRegMem", "PushMem", "Load",
     "StoreReg", "StoreVal"}

\* C18: a memory access outside the backing store is a typed failure: a
\* step() whose instruction reads or writes at an address at or past the
\* size of the memory returns the error InvalidAddress and changes no memory
\* byte; it does not abort and does not access another byte instead.
C18_BoundsAreTyped ==
    [][(/\ Stepped
        /\ inst'.name \in AccessesMemory
        /\ ~Target(inst').ovf
        /\ ~InBounds(Target(inst').val))
       => /\ result' = "Err"
          /\ error'.kind = "InvalidAddress"
          /\ memory' = memory]_vars

\* C19: address arithmetic never wraps: when program_start + operand of the
\* instruction a step() executes exceeds 2^32 - 1, the step() returns the
\* error StackOverflow; it neither aborts nor goes on with the wrapped
\* address.
C19_AddressNeverWraps ==
    [][(/\ Stepped
        /\ inst'.name \in AccessesMemory
        /\ Target(inst').ovf)
       => /\ result' = "Err"
          /\ error'.kind = "StackOverflow"]_vars

\* C20: execute() calls step() again and again, returns exactly when a
\* step() reports the halt signal, and ends the run at the first step() that
\* returns an error: every move made inside execute() is one step(), after
\* which execute() goes on if it returned Continue, has returned to the host
\* if it returned Break, and has ended the run otherwise; once the run has
\* ended nothing is fetched or executed any more.
C20_ExecuteStopsAtHaltOrError ==
    [][/\ caller # "aborted"
       /\ caller = "execute"
          => /\ Stepped
             /\ (caller' = "execute") = (result' = "Continue")
             /\ (caller' = "host") = (result' = "Break")
             /\ (caller' = "aborted") = (result' \in {"Err", "panic"})]_vars

\* C20: a run of execute() has ended at the error of the third step() of
\* the machine, on a byte that is no opcode
C20_Witness ==
    /\ caller = "aborted"
    /\ result = "Err"
    /\ error.kind = "InvalidOpCode"
    /\ steps = 3
    /\ faults = 1
    /\ registers[R1] = N32(7)

\* the addresses the memory helpers are tried at, away from the ends
HelperAddrs == {Zero32, N32(6), N32(FarAddr)}

\* C21: the multi-byte memory helpers are little-endian and mutually
\* inverse: read_u32(a) after write_u32(a, v) returns v, read_u16(a) after
\* write_u16(a, v) returns v, and read_u32(a) is the word of the bytes at a,
\* a+1, a+2, a+3 with the byte at a least significant.
C21_HelpersInverse ==
    \A a \in HelperAddrs :
        /\ \A v \in U32s : read_u32(write_u32(Self("debug"), a, v), a).v = v
        /\ \A n \in U16s :
                read_u16(write_u16(Self("debug"), a, <<0, n>>), a).v = <<0, n>>
        /\ read_u32(Self("debug"), a).v = WordAt(memory, a)

\* the store opcodes
Stores == {"StoreReg", "StoreU8", "StoreU16", "StoreU32"}

\* the byte k places after IP
Following(k) == memory[registers[IP][2] + k]

\* the bytes the store instruction at IP is to write: the immediate of
\* StoreU8/U16/U32, the register of StoreReg, least significant byte first
StoreBytes ==
    CASE FetchedOp = "StoreU8" -> <<Following(5)>>
      [] FetchedOp = "StoreU16" -> <<Following(5), Following(6)>>
      [] FetchedOp = "StoreU32" -> <<Following(5), Following(6), Following(7), Following(8)>>
      [] FetchedOp = "StoreReg" -> ToLeBytes(registers[Following(1)])

\* program_start + the address operand of the store instruction at IP
StoreTarget ==
    Add32(program_start,
          WordAt(memory, Add32(registers[IP],
                               N32(IF FetchedOp = "StoreReg" THEN 2 ELSE 1)).val))

\* IP is at a store instruction whose register is a Register and whose
\* target word lies in the memory
AtStore ==
    /\ InBounds(registers[IP])
    /\ registers[IP][2] + 9 < MemSize
    /\ OpCodeTryFromOk(Following(0))
    /\ FetchedOp \in Stores
    /\ FetchedOp = "StoreReg" => Following(1) \in Register
    /\ ~StoreTarget.ovf
    /\ InBounds(Add32(StoreTarget.val, N32(3)).val)

\* the memory with bytes written at the address at
WithBytes(m, at, bytes) ==
    [a \in 0 .. (MemSize - 1) |->
        IF a >= at /\ a < at + Len(bytes) THEN bytes[a - at + 1] ELSE m[a]]

\* C22: a store writes exactly its operand: after the step() of StoreU8,
\* StoreU16, StoreU32 or StoreReg the bytes at program_start + addr hold the
\* immediate, or the value of the register, in little-endian order, no other
\* memory byte has changed and no register other than IP has changed.
C22_StoreWritesOperand ==
    [][(Stepped /\ AtStore)
       => /\ result' = "Continue"
          /\ memory' = WithBytes(memory, StoreTarget.val[2], StoreBytes)
          /\ \A r \in Register \ {IP} : registers'[r] = registers[r]]_vars

\* the push instructions
Pushes == {"PushReg", "PushMem", "PushVal"}

\* C23: a successful push executed with SP = s leaves SP = s - 4,
\* saturating at 0 when s < 4.
C23_PushDecrementsByFour ==
    [][(Stepped /\ result' = "Continue" /\ inst'.name \in Pushes)
       => registers'[SP] = SaturatingSub(registers[SP], N32(4))]_vars

\* C24: the program [MovRegU8 R1 v, PushReg R1, Halt], run on a fresh CPU
\* whose stack_start is the top of the memory, terminates with the byte at
\* stack_start - 1 equal to v.
C24_PushRegScenario ==
    (prog \in PushRegs /\ stack_start = N32(MemSize) /\ steps = 3)
    => /\ result = "Break"
       /\ memory[MemSize - 1] = prog[1].args[2].v[2]

\* C25: Cpu::new(memory, program_start, stack_start, interrupt_table)
\* yields, for every argument value, a Cpu with IP = program_start, SP =
\* stack_start, FP near SP (2 below it), R1..R8 = 0, Flags = Eq,
\* in_interrupt = false, and the memory as it was given.
C25_NewState ==
    steps = 0
    => /\ caller # "aborted"
       /\ registers[IP] = program_start
       /\ registers[SP] = stack_start
       /\ Add32(registers[FP], N32(2)) = [val |-> stack_start, ovf |-> FALSE]
       /\ \A r \in {R1, R2, R3, R4, R5, R6, R7, R8} : registers[r] = Zero32
       /\ flags = "Eq"
       /\ ~in_interrupt
       /\ memory = Loaded(program_start[2], Image(prog))

\* no instruction of the image names SP as its destination: SP changes only
\* through push, pop, Call, Ret and interrupts
StackDisciplined == \A k \in 1 .. Len(prog) : Destination(prog[k]) # SP

\* C26: at every instruction boundary of a run that started with
\* stack_start inside the memory and changes SP only through push, pop,
\* Call, Ret and interrupts, SP lies within the memory and differs from
\* stack_start by a multiple of 4.
C26_StackPointerInvariant ==
    (StackDisciplined /\ InBounds(stack_start) /\ caller # "aborted" /\ faults = 0)
    => /\ InBounds(registers[SP])
       /\ (stack_start[2] - registers[SP][2]) % 4 = 0

\* C27: Call(addr) builds a frame of five words from the caller's SP (R1, R2,
\* R3, R4 and the return address), so that SP is 20 below its value before
\* the Call, and then sets FP to SP - 1.
C27_CallFrame ==
    [][(Stepped /\ result' = "Continue" /\ inst'.name = "Call")
       => /\ registers'[SP] = Sub32(registers[SP], N32(20)).val
          /\ registers'[FP] = SaturatingSub(registers'[SP], One32)]_vars

\* the memory m with bytes[1], bytes[2], ... written at s, s - 1, ...
Descending(m, s, bytes) ==
    [a \in 0 .. (MemSize - 1) |->
        IF a <= s /\ a > s - Len(bytes) THEN bytes[s - a + 1] ELSE m[a]]

\* C28: a push of the 32-bit value v with SP = s writes exactly the four
\* bytes of v at the four addresses s, s-1, s-2, s-3, one byte of v per
\* address, and changes no other byte.  The formula accepts the bytes with
\* the least significant at s as well as with the least significant at s-3.
C28_PushWritesWord ==
    [][(Stepped /\ result' = "Continue" /\ inst'.name = "PushVal")
       => /\ InBounds(registers[SP])
          /\ registers[SP][2] >= 3
          /\ \/ memory' = Descending(memory, registers[SP][2],
                                     ToLeBytes(AsU32(inst'.args[1])))
             \/ memory' = Descending(memory, registers[SP][2],
                                     RevBytes(ToLeBytes(AsU32(inst'.args[1]))))]_vars

\* C29: Pop reads the four bytes starting at SP as one little-endian word:
\* after a successful PopReg the destination register holds byte(SP) +
\* 2^8 byte(SP+1) + 2^16 byte(SP+2) + 2^24 byte(SP+3) of the memory.
C29_PopReadsWord ==
    [][(/\ Stepped
        /\ result' = "Continue"
        /\ inst'.name = "PopReg"
        /\ RegOf(inst'.args[1]) \notin {IP, SP})
       => registers'[RegOf(inst'.args[1])] = WordAt(memory, registers[SP])]_vars

\* the interrupt numbers tried
Numbers == 0 .. 2

\* the handler address handle_interrupt reads for the interrupt number n
\* when the memory is m
HandlerSeen(m, n) ==
    read_u32([Self("debug") EXCEPT !.memory = m],
             Add32(interrupt_table, N32(n)).val).v

\* the addresses of the bytes the entry of the number n is made of: the bytes
\* whose change changes the handler address seen for n
EntryBytes(n) ==
    {a \in 0 .. (MemSize - 1) :
        HandlerSeen([memory EXCEPT ![a] = (@ + 1) % Byte], n) # HandlerSeen(memory, n)}

\* C30: the entries of the interrupt table that handle_interrupt reads for
\* two distinct interrupt numbers share no byte: changing the handler of one
\* number does not change the handler address seen for another.
C30_TableEntriesDisjoint ==
    \A i, j \in Numbers : i # j => EntryBytes(i) \cap EntryBytes(j) = {}

\* C31: program_start and interrupt_table are fixed at construction: no
\* step(), whatever it executes and whether it returns Ok, an Err or panics,
\* changes either of them.
C31_ConstructionFixed ==
    [][Stepped => (program_start' = program_start
                   /\ interrupt_table' = interrupt_table)]_vars

\* C31: steps have been made and the last one has dispatched an interrupt, the
\* program loaded away from address 0 and the interrupt table placed after it
C31_Witness ==
    /\ steps >= 2
    /\ result = "Continue"
    /\ inst.name = "InterruptReg"
    /\ in_interrupt
    /\ program_start = N32(2)
    /\ interrupt_table = N32(10)

\* the instructions that raise an interrupt
Interrupts == {"Interrupt", "InterruptReg"}

\* C32: in_interrupt changes only from false to true and only in a step()
\* that executes Interrupt or InterruptReg; nothing, Ret included, sets it
\* back to false, and an interrupt taken while it is false that succeeds
\* leaves it true, so that at most one interrupt of a run saves the context.
C32_InInterruptLatches ==
    [][/\ in_interrupt => in_interrupt'
       /\ in_interrupt' # in_interrupt => (Stepped /\ inst'.name \in Interrupts)
       /\ (Stepped /\ inst'.name \in Interrupts /\ ~in_interrupt /\ result' = "Continue")
             => in_interrupt']_vars

\* C32: the handler has raised the interrupt again, twice, and in_interrupt
\* is still true
C32_Witness ==
    /\ prog = Handler(I1("InterruptReg", Reg(R1)))
    /\ steps = 3
    /\ inst.name \in Interrupts
    /\ result = "Continue"
    /\ in_interrupt

\* C33: in every state reachable by step() from a constructed Cpu, Flags is
\* one of Eq, Gt, Lt, so that JumpGte is taken exactly where JumpGe is taken
\* and JumpLte exactly where JumpLt is taken.
C33_FlagsAreStrict ==
    /\ flags \in {"Eq", "Gt", "Lt"}
    /\ Taken("JumpGte", flags) <=> Taken("JumpGe", flags)
    /\ Taken("JumpLte", flags) <=> Taken("JumpLt", flags)

\* C33: a CmpU16 has recorded Gt and the JumpGte after it has been taken
C33_Witness ==
    /\ steps = 2
    /\ prog[1] = I2("CmpVal", ValU16(300), ValU16(256))
    /\ inst = I1("JumpGte", Addr(N32(6)))
    /\ result = "Continue"
    /\ flags = "Gt"
    /\ registers[IP] = Add32(program_start, N32(6 + increment_amount("JumpGte"))).val

\* C34: a step() that returns an error raised while executing the instruction
\* leaves IP at the failing instruction and every other register, Flags and
\* the memory as they were before the step.
C34_FailedStepHasNoEffect ==
    [][(Stepped /\ result' = "Err" /\ inst' # NoInst)
       => (/\ registers' = registers
           /\ flags' = flags
           /\ memory' = memory
           /\ above' = above)]_vars

\* the Cpu after the five pushes of a context save made in the build b
SavedFrame(b) == PushFrame(Self(b))

\* the subtraction of save_stack: FP - (SP - 1), SP taken after the pushes
FrameSize(d) == Sub32(d.registers[FP], SaturatingSub(d.registers[SP], One32))

\* C35: the frame-size word of an interrupt's context save, FP - (SP - 1)
\* with SP taken after the five pushes, never underflows, and the
\* FP + frame-size of Ret never overflows, in any state reached by step()
\* from a constructed Cpu.
C35_FrameSizeInRange ==
    [][/\ (/\ Stepped
           /\ inst'.name \in Interrupts
           /\ ~in_interrupt
           /\ ~Add32(interrupt_table, registers[RegOf(inst'.args[1])]).ovf)
          => \A b \in Builds :
                Ok(SavedFrame(b)) => ~FrameSize(SavedFrame(b)).ovf
       /\ (Stepped /\ inst'.name = "Ret")
          => \A b \in Builds : ~restore_stack(Self(b)).ovf]_vars

\* the u32 words tried as register contents
Words == {Zero32, <<0, 65535>>, <<43690, 61166>>, MaxU32}

\* C38: for every register r and every 32-bit content x of it, get_upper(r)
\* is the upper 16 bits of x and get_lower(r) the lower 16 bits: they agree
\* with WordSize::upper and WordSize::lower of x.
C38_HalvesAgree ==
    \A r \in Register : \A x \in Words \cup {registers[r]} :
        /\ get_upper([registers EXCEPT ![r] = x], r) = upper(x)
        /\ get_lower([registers EXCEPT ![r] = x], r) = lower(x)

\* a label definition `name:`, the name it defines, and a use of a name: an
\* identifier that is no definition and no keyword
IsDefinition(tok) == tok.t = "Identifier" /\ EndsWithColon(tok.v)

LabelName(tok) == SubSeq(tok.v, 1, Len(tok.v) - 1)

IsUse(tok) == tok.t = "Identifier" /\ ~EndsWithColon(tok.v) /\ tok.v \notin KeyWords

\* the positions among the tokens toks of the definitions of the name s, and
\* the last of a set of positions
Definitions(toks, s) ==
    {k \in 1 .. Len(toks) : IsDefinition(toks[k]) /\ LabelName(toks[k]) = s}

LastOf(S) == CHOOSE k \in S : \A j \in S : j <= k

\* the node of the k-th token: definitions aside, the tokens and the nodes
\* go one to one
NodeOf(toks, k) == Cardinality({j \in 1 .. k : ~IsDefinition(toks[j])})

\* what a token adds to the address: the bytes of a register or a number,
\* four for a label definition
Weight(tok) ==
    CASE tok.t \in {"Register", "U8"} -> 1
      [] tok.t = "U16" -> 2
      [] tok.t = "U32" -> 4
      [] IsDefinition(tok) -> 4
      [] OTHER -> 0

\* the address of the k-th token
RECURSIVE AddressOfToken(_, _)
AddressOfToken(toks, k) ==
    IF k = 1 THEN 0 ELSE AddressOfToken(toks, k - 1) + Weight(toks[k - 1])

\* the nodes are the tokens toks with their labels resolved
Resolved(toks, nodes) ==
    /\ Len(nodes) = Cardinality({k \in 1 .. Len(toks) : ~IsDefinition(toks[k])})
    /\ \A k \in 1 .. Len(toks) :
          IsUse(toks[k]) =>
             nodes[NodeOf(toks, k)] =
                IF Definitions(toks, toks[k].v) # {}
                THEN AstNode("Label",
                             N32(AddressOfToken(toks, LastOf(Definitions(toks, toks[k].v)))))
                ELSE AstNode("Ident", toks[k].v)

\* C36: after Parser::parse every identifier that is the name of a label
\* defined anywhere in the source, before or after the use, is Label(address
\* of the definition), the last one when the name is defined again; a label
\* definition yields no node; an identifier with no definition stays an Ident.
C36_LabelsResolved ==
    parsed = "Ok" => \A toks \in {lex(data).tokens} : Resolved(toks, ast)

\* C36: `f 7 f:` has been parsed: the use of f before its definition is the
\* Label of address 1, and the definition has left no node
C36_Witness ==
    /\ parsed = "Ok"
    /\ data = <<"f", " ", "7", " ", "f", ":">>
    /\ ast[1] = AstNode("Label", N32(1))
    /\ Len(ast) = 4

\* the width that holds n and no narrower one does, and its number of bytes
Narrowest(n) ==
    IF ~Gt32(n, MaxU8) THEN "U8" ELSE IF ~Gt32(n, MaxU16) THEN "U16" ELSE "U32"

WidthBytes(t) == CASE t = "U8" -> 1 [] t = "U16" -> 2 [] t = "U32" -> 4

\* C37: the lexer gives a decimal literal n the narrowest width that holds
\* it, U8 up to 255, U16 up to 65535, U32 up to 2^32-1, and the literal
\* contributes that many bytes, 1, 2 or 4, to the encoded program.
C37_NarrowestWidth ==
    /\ \A l \in Literals :
          (data = l.s /\ parsed # "none") =>
             /\ parsed = "Ok"
             /\ ast = <<AstNode("Token", Tok(Narrowest(l.n), l.n))>>
             /\ byte_size(ast[1]) = <<WidthBytes(Narrowest(l.n))>>
             /\ into_bytes(ast) = SubSeq(ToLeBytes(l.n), 1, WidthBytes(Narrowest(l.n)))
    /\ parsed = "Ok" =>
          \A n \in 1 .. Len(ast) :
             (ast[n].t = "Token" /\ ast[n].v.t \in {"U8", "U16", "U32"})
                => ast[n].v.t = Narrowest(ast[n].v.v)

\* C37: the literal 65536 has been parsed: a U32 of four bytes
C37_Witness ==
    /\ parsed = "Ok"
    /\ data = <<"6", "5", "5", "3", "6">>
    /\ ast[1].v.t = "U32"
    /\ into_bytes(ast) = <<0, 0, 1, 0>>

====
